---- MODULE Spec2Model ----
(***************************************************************************)
(* State-machine model of the path-steering controllers of Chrono::Vehicle *)
(* (ChSteeringController and its PID, XT, SR and Stanley variants), taken   *)
(* from chrono_vehicle/utils/ChSteeringController.cpp                       *)
(* (src/unnamed/part_000).                                                  *)
(*                                                                         *)
(* Numbers.  The code computes in double.  The model computes in fixed      *)
(* point: a real r is the integer r * Scale, products and quotients are     *)
(* rescaled and truncated towards zero.  All inputs are drawn from values   *)
(* that are exact in this representation.                                   *)
(***************************************************************************)
EXTENDS Integers, Sequences, FiniteSets, TLC

\* ------------------------------------------------------------------------
\* Fixed-point arithmetic
\* ------------------------------------------------------------------------

\* One unit (1.0) in the fixed-point representation.
Scale == 10 * 10 * 10

Abs(a) == IF a < 0 THEN -a ELSE a

\* Integer quotient truncated towards zero (b # 0).
Trunc(a, b) ==
    IF (a >= 0) = (b > 0) THEN Abs(a) \div Abs(b) ELSE -(Abs(a) \div Abs(b))

\* double * double
FxMul(a, b) == Trunc(a * b, Scale)

\* double / double (b # 0)
FxDiv(a, b) == Trunc(a * Scale, b)

RECURSIVE SqrtIter(_, _, _)
SqrtIter(n, lo, hi) ==
    IF lo >= hi THEN lo
    ELSE LET mid == (lo + hi + 1) \div 2
         IN  IF mid * mid <= n THEN SqrtIter(n, mid, hi)
                               ELSE SqrtIter(n, lo, mid - 1)

\* Largest r with r * r <= n, for 0 <= n < 2^31.
ISqrt(n) == SqrtIter(n, 0, 46340)

\* ------------------------------------------------------------------------
\* ChVector<> and ChWorldFrame (ISO frame: X forward, Y left, Z up)
\* ------------------------------------------------------------------------

Vec(x, y, z) == [x |-> x, y |-> y, z |-> z]

VZero == Vec(0, 0, 0)

VAdd(a, b) == Vec(a.x + b.x, a.y + b.y, a.z + b.z)

VSub(a, b) == Vec(a.x - b.x, a.y - b.y, a.z - b.z)

VNeg(a) == Vec(-a.x, -a.y, -a.z)

\* vector * double
VScale(a, s) == Vec(FxMul(a.x, s), FxMul(a.y, s), FxMul(a.z, s))

Vdot(a, b) == FxMul(a.x, b.x) + FxMul(a.y, b.y) + FxMul(a.z, b.z)

Vcross(a, b) ==
    Vec(FxMul(a.y, b.z) - FxMul(a.z, b.y),
        FxMul(a.z, b.x) - FxMul(a.x, b.z),
        FxMul(a.x, b.y) - FxMul(a.y, b.x))

\* ChVector::Length
Length(a) == ISqrt(a.x * a.x + a.y * a.y + a.z * a.z)

\* ChVector::Normalize: a vector of length zero becomes (1, 0, 0).
Normalize(a) ==
    LET len == Length(a)
    IN  IF len = 0 THEN Vec(Scale, 0, 0)
        ELSE Vec(FxDiv(a.x, len), FxDiv(a.y, len), FxDiv(a.z, len))

\* ChWorldFrame::Forward()
Forward == Vec(Scale, 0, 0)

\* ChWorldFrame::Vertical()
Vertical == Vec(0, 0, Scale)

\* ChWorldFrame::Project: drops the vertical component.
Project(a) == Vec(a.x, a.y, 0)

\* ChWorldFrame::Height
Height(a) == a.z

\* ChSignum
ChSignum(a) == IF a > 0 THEN 1 ELSE IF a < 0 THEN -1 ELSE 0

\* ChClamp(value, limitMin, limitMax)
ChClamp(value, limitMin, limitMax) ==
    IF value < limitMin THEN limitMin
    ELSE IF value > limitMax THEN limitMax
    ELSE value

\* ------------------------------------------------------------------------
\* Path (ChBezierCurve) and its tracker (ChBezierCurveTracker)
\* ------------------------------------------------------------------------

\* n length units in fixed point.
Fx(n) == n * Scale

\* A path is a sequence pts of 3D points, open or closed.  Segment i (1-based)
\* runs from pts[i] to its successor; curv[i] is the curvature the tracker
\* reports on it and left[i] tells whether the centre of curvature lies to the
\* left of the direction of travel.
NumPoints(p) == Len(p.pts)

NumSegments(p) == IF p.closed THEN Len(p.pts) ELSE Len(p.pts) - 1

SegStart(p, i) == p.pts[i]

SegEnd(p, i) == p.pts[(i % Len(p.pts)) + 1]

\* Squared distance (raw), used only to compare distances.
Dist2(a, b) ==
    LET d == VSub(a, b) IN d.x * d.x + d.y * d.y + d.z * d.z

\* Closest point to q on the segment from a to b.
ClosestOnSegment(a, b, q) ==
    LET d == VSub(b, a)
        t == ChClamp(FxDiv(Vdot(VSub(q, a), d), Vdot(d, d)), 0, Scale)
    IN  VAdd(a, VScale(d, t))

\* Index of the segment closest to q (the first one among equals).
ClosestSegment(p, q) ==
    LET D(i) == Dist2(ClosestOnSegment(SegStart(p, i), SegEnd(p, i), q), q)
    IN  CHOOSE i \in 1..NumSegments(p) :
            \A j \in 1..NumSegments(p) : D(i) < D(j) \/ (D(i) = D(j) /\ i <= j)

\* ChBezierCurveTracker::calcClosestPoint(loc, tnb, curvature): the closest
\* point of the path, the curve frame there (X tangent, Y normal, Z binormal)
\* and the curvature.
calcClosestPoint(p, q) ==
    LET Tnb(i, tan, nrm) ==
            [pos |-> ClosestOnSegment(SegStart(p, i), SegEnd(p, i), q),
             tangent |-> tan,
             normal |-> nrm,
             binormal |-> Vcross(tan, nrm),
             curvature |-> p.curv[i],
             cursor |-> i]
        Oriented(i, tan, lft) == Tnb(i, tan, IF p.left[i] THEN lft ELSE VNeg(lft))
        Along(i, tan) == Oriented(i, tan, Vcross(Vertical, tan))
        OnSegment(i) == Along(i, Normalize(VSub(SegEnd(p, i), SegStart(p, i))))
    IN  OnSegment(ClosestSegment(p, q))

\* ChBezierCurveTracker::reset(loc): restarts the search at loc.
TrackerReset(p, q) == ClosestSegment(p, q)

\* ------------------------------------------------------------------------
\* Vehicle state read by the controllers (ChVehicle)
\* ------------------------------------------------------------------------

\* pos: origin of the chassis reference frame; xaxis, yaxis: its forward and
\* left unit vectors; vel: velocity of that origin; time: simulation time.
Pose(pos, hx, hy, vel) ==
    [pos |-> pos, xaxis |-> Vec(hx, hy, 0), yaxis |-> Vec(-hy, hx, 0), vel |-> vel]

\* vehicle.GetPos()
GetPos(veh) == veh.pos

\* vehicle.GetChassisBody()->GetFrame_REF_to_abs().TransformPointLocalToParent
TransformPointLocalToParent(veh, q) ==
    LET zaxis == Vcross(veh.xaxis, veh.yaxis)
    IN  VAdd(veh.pos,
             VAdd(VScale(veh.xaxis, q.x),
                  VAdd(VScale(veh.yaxis, q.y), VScale(zaxis, q.z))))

\* vehicle.GetSpeed(): velocity component along the chassis forward axis.
GetSpeed(veh) == Vdot(veh.vel, veh.xaxis)

\* vehicle.GetPointVelocity(ChVector<>(0, 0, 0))
GetPointVelocity(veh) == veh.vel

\* vehicle.GetChTime()
GetChTime(veh) == veh.time

\* ------------------------------------------------------------------------
\* Base class ChSteeringController.  A controller object is a record c of its
\* data members, named as in the source.
\* ------------------------------------------------------------------------

\* The utils::CSV_writer behind m_csv: alloc says whether the object exists
\* (m_csv # nullptr), rows are the rows streamed into it so far.
NullCsv == [alloc |-> FALSE, rows |-> <<>>]

\* ChSteeringController::SetGains(Kp, Ki, Kd)
SetGains(c, Kp, Ki, Kd) == [c EXCEPT !.m_Kp = Kp, !.m_Ki = Ki, !.m_Kd = Kd]

\* ChSteeringController::ChSteeringController()
BaseCtor ==
    SetGains([m_dist |-> 0, m_sentinel |-> VZero, m_target |-> VZero,
              m_err |-> 0, m_erri |-> 0, m_errd |-> 0,
              m_csv |-> NullCsv, m_collect |-> FALSE,
              m_Kp |-> 0, m_Ki |-> 0, m_Kd |-> 0],
             0, 0, 0)

\* ChSteeringController::ChSteeringController(filename).  d is the parsed
\* document; m_Kp, m_Ki, m_Kd and m_dist are not in the initializer list, so
\* when the constructor returns early they keep the indeterminate values
\* junk.Kp, junk.Ki, junk.Kd, junk.dist of uninitialized storage.
BaseCtorFile(d, junk) ==
    LET c0 == [m_dist |-> junk.dist, m_sentinel |-> VZero, m_target |-> VZero,
               m_err |-> 0, m_erri |-> 0, m_errd |-> 0,
               m_csv |-> NullCsv, m_collect |-> FALSE,
               m_Kp |-> junk.Kp, m_Ki |-> junk.Ki, m_Kd |-> junk.Kd]
    IN  IF d.IsNull THEN c0
        ELSE [c0 EXCEPT !.m_Kp = d.Kp, !.m_Ki = d.Ki, !.m_Kd = d.Kd,
                        !.m_dist = d.LookaheadDistance]

\* The sentinel location: the point at the look-ahead distance in front of the
\* chassis reference frame.
SentinelLocation(c, veh) == TransformPointLocalToParent(veh, VScale(Forward, c.m_dist))

\* Reset without clearing the integral of the error.
BaseReset_KeepsIntegral(c, veh) ==
    [c EXCEPT !.m_sentinel = SentinelLocation(c, veh), !.m_err = 0, !.m_errd = 0]

\* Reset without clearing the cached error.
BaseReset_KeepsError(c, veh) ==
    [c EXCEPT !.m_sentinel = SentinelLocation(c, veh), !.m_erri = 0, !.m_errd = 0]

\* ChSteeringController::Reset
BaseReset(c, veh) ==
    [c EXCEPT !.m_sentinel = SentinelLocation(c, veh),
              !.m_err = 0, !.m_erri = 0, !.m_errd = 0]

\* The data collection step of Advance: append (time, target, sentinel).
LogRow(c, veh) ==
    IF c.m_collect
    THEN [c EXCEPT !.m_csv.rows =
              Append(@, [time |-> GetChTime(veh), target |-> c.m_target,
                         sentinel |-> c.m_sentinel])]
    ELSE c

\* The lateral error without its sign.
LateralError_Unsigned(c, veh) == Length(Project(VSub(c.m_target, c.m_sentinel)))

\* The lateral error with the sign taken from the vectors from the world
\* origin, not from the vehicle position, to the sentinel and to the target.
LateralError_FromOrigin(c, veh) ==
    LET err_vec == Project(VSub(c.m_target, c.m_sentinel))
        temp    == Vdot(Vcross(Project(c.m_sentinel), Project(c.m_target)), Vertical)
    IN  ChSignum(temp) * Length(err_vec)

\* The signed lateral error of Advance: the length of the ground projection of
\* target - sentinel, signed by the vertical component of the cross product of
\* the projected vectors from the vehicle to the sentinel and to the target.
LateralError(c, veh) ==
    LET err_vec      == Project(VSub(c.m_target, c.m_sentinel))
        sentinel_vec == Project(VSub(c.m_sentinel, GetPos(veh)))
        target_vec   == Project(VSub(c.m_target, GetPos(veh)))
        temp         == Vdot(Vcross(sentinel_vec, target_vec), Vertical)
    IN  ChSignum(temp) * Length(err_vec)

\* The PID state update with the rectangle rule for the integral.
PIDUpdate_Rectangle(c, err, step) ==
    [c EXCEPT !.m_errd = FxDiv(err - c.m_err, step),
              !.m_erri = @ + FxMul(err, step),
              !.m_err  = err]

\* The PID state update of Advance (derivative, integral, cached error).
PIDUpdate(c, err, step) ==
    [c EXCEPT !.m_errd = FxDiv(err - c.m_err, step),
              !.m_erri = @ + Trunc(FxMul(err + c.m_err, step), 2),
              !.m_err  = err]

\* The PID output returned by Advance.
PIDOutput(c) == FxMul(c.m_Kp, c.m_err) + FxMul(c.m_Ki, c.m_erri) + FxMul(c.m_Kd, c.m_errd)

\* StartDataCollection allocating a fresh buffer on every start.
StartDataCollection_Realloc(c) ==
    IF c.m_collect THEN c
    ELSE [c EXCEPT !.m_csv = [alloc |-> TRUE, rows |-> <<>>], !.m_collect = TRUE]

\* ChSteeringController::StartDataCollection
StartDataCollection(c) ==
    IF c.m_collect THEN c
    ELSE LET c1 == IF ~c.m_csv.alloc
                   THEN [c EXCEPT !.m_csv = [alloc |-> TRUE, rows |-> <<>>]]
                   ELSE c
         IN  [c1 EXCEPT !.m_collect = TRUE]

\* StopDataCollection giving the buffer back.
StopDataCollection_Frees(c) == [c EXCEPT !.m_collect = FALSE, !.m_csv = NullCsv]

\* ChSteeringController::StopDataCollection
StopDataCollection(c) == [c EXCEPT !.m_collect = FALSE]

\* WriteOutputFile writing only while data collection is enabled.
WriteOutputFile_WhileCollecting(c, fs, filename) ==
    IF c.m_csv.alloc /\ c.m_collect
    THEN [fs EXCEPT ![filename] = [written |-> TRUE, rows |-> c.m_csv.rows]]
    ELSE fs

\* ChSteeringController::WriteOutputFile: the file system fs after the call.
WriteOutputFile(c, fs, filename) ==
    IF c.m_csv.alloc
    THEN [fs EXCEPT ![filename] = [written |-> TRUE, rows |-> c.m_csv.rows]]
    ELSE fs

\* ------------------------------------------------------------------------
\* ChPathSteeringController (PID on the closest path point)
\* ------------------------------------------------------------------------

\* ChPathSteeringController::ChPathSteeringController(path, isClosedPath)
PIDCtor == BaseCtor @@ [m_tracker |-> 1]

\* ChPathSteeringController::ChPathSteeringController(filename, path, isClosedPath)
PIDCtorFile(d, junk) == BaseCtorFile(d, junk) @@ [m_tracker |-> 1]

\* ChPathSteeringController::CalcTargetLocation
PIDCalcTargetLocation(c, p) ==
    LET Found(r) == [c EXCEPT !.m_target = r.pos, !.m_tracker = r.cursor]
    IN  Found(calcClosestPoint(p, c.m_sentinel))

\* ChPathSteeringController::Reset
PIDReset(c, veh, p) ==
    LET c1 == BaseReset(c, veh)
    IN  [c1 EXCEPT !.m_tracker = TrackerReset(p, c1.m_sentinel)]

\* ChSteeringController::Advance, with the CalcTargetLocation of the path
\* controller: the controller after the call.
PIDAdvance(c, veh, step, p) ==
    LET Controlled(c3) == PIDUpdate(c3, LateralError(c3, veh), step)
        Located(c1) == Controlled(LogRow(PIDCalcTargetLocation(c1, p), veh))
    IN  Located([c EXCEPT !.m_sentinel = SentinelLocation(c, veh)])

\* ------------------------------------------------------------------------
\* Elementary functions in fixed point
\* ------------------------------------------------------------------------

CH_C_PI == 3 * Scale + 142

CH_C_DEG_TO_RAD == CH_C_PI \div 180

\* sin(x): x is reduced to [-pi/2, pi/2], then the Taylor polynomial of
\* degree 7.
FxSin(x) ==
    LET w  == ((x + CH_C_PI) % (2 * CH_C_PI)) - CH_C_PI
        y  == IF w > CH_C_PI \div 2 THEN CH_C_PI - w
              ELSE IF w < -(CH_C_PI \div 2) THEN -CH_C_PI - w
              ELSE w
        y2 == FxMul(y, y)
        y3 == FxMul(y2, y)
        y5 == FxMul(y3, y2)
        y7 == FxMul(y5, y2)
    IN  y - Trunc(y3, 6) + Trunc(y5, 120) - Trunc(y7, 5040)

FxCos(x) == FxSin(x + CH_C_PI \div 2)

\* ChMatrix33<>(theta, ChWorldFrame::Vertical()) * v: v turned by theta about
\* the vertical axis.
RotateVertical(theta, v) ==
    Vec(FxMul(FxCos(theta), v.x) - FxMul(FxSin(theta), v.y),
        FxMul(FxSin(theta), v.x) + FxMul(FxCos(theta), v.y),
        v.z)

\* sqrt(a), a >= 0
FxSqrt(a) == ISqrt(a * Scale)

\* The Taylor polynomial of degree 7 of asin.
AsinSeries(y) ==
    LET y2 == FxMul(y, y)
        y3 == FxMul(y2, y)
        y5 == FxMul(y3, y2)
        y7 == FxMul(y5, y2)
    IN  y + Trunc(y3, 6) + Trunc(3 * y5, 40) + Trunc(15 * y7, 336)

\* asin(x), |x| <= 1: the series for |x| <= 1/2, and
\* pi/2 - 2 asin(sqrt((1 - |x|) / 2)) beyond.
FxAsin(x) ==
    LET ax == Abs(x)
        r  == IF 2 * ax <= Scale THEN AsinSeries(ax)
              ELSE CH_C_PI \div 2 - 2 * AsinSeries(FxSqrt((Scale - ax) \div 2))
    IN  IF x < 0 THEN -r ELSE r

\* atan(x) = asin(x / sqrt(1 + x^2))
FxAtan(x) == FxAsin(FxDiv(x, FxSqrt(Scale + FxMul(x, x))))

\* ChSineStep(x, x1, y1, x2, y2)
ChSineStep(x, x1, y1, x2, y2) ==
    IF x <= x1 THEN y1
    ELSE IF x >= x2 THEN y2
    ELSE LET dx == x2 - x1
             dy == y2 - y1
         IN  y1 + FxDiv(FxMul(dy, x - x1), dx)
                - FxMul(FxDiv(dy, 2 * CH_C_PI), FxSin(FxDiv(FxMul(2 * CH_C_PI, x - x1), dx)))

\* ------------------------------------------------------------------------
\* utils::ChFilterPT1 and utils::ChFilterPDT1: first-order lag filters
\* ------------------------------------------------------------------------

\* A filter that has not been configured.
NoFilter == [step |-> 0, T1 |-> 0, Td1 |-> 0, K |-> 0, u_old |-> 0, y |-> 0, configured |-> FALSE]

\* ChFilterPT1::Config(step, T1) (gain 1)
PT1Config(step, T1) ==
    [step |-> step, T1 |-> T1, Td1 |-> 0, K |-> Scale, u_old |-> 0, y |-> 0, configured |-> TRUE]

\* ChFilterPDT1::Config(step, Td1, T1, Kdt1)
PDT1Config(step, Td1, T1, K) ==
    [step |-> step, T1 |-> T1, Td1 |-> Td1, K |-> K, u_old |-> 0, y |-> 0, configured |-> TRUE]

\* Filter(u): the filter after the call; its output is the field y.  The lag
\* moves y towards K * (u + Td1 * du/dt) by the fraction step / (T1 + step).
FilterStep(f, u) ==
    LET v == FxMul(f.K, u + FxDiv(FxMul(f.Td1, u - f.u_old), f.step))
    IN  [f EXCEPT !.y = @ + FxDiv(FxMul(f.step, v - f.y), f.T1 + f.step), !.u_old = u]

\* ------------------------------------------------------------------------
\* ChPathSteeringControllerSR
\* ------------------------------------------------------------------------

\* const double g = 9.81
g == 9810

\* The preview time and the minimum speed set by the constructors.
SR_Tp_default == 500

SR_umin == 2000

SR_umin_file == 1000

\* The indices (0-based, as in the source) at which CalcPathPoints reads or
\* writes S_l, R_l and R_lu, for a path of np points.  The indices are of
\* type size_t: a negative number n stands for the size_t value 2^64 + n that
\* np - 1 or np - 2 wraps to.  With np = 0 the bound np - 1 of the second loop
\* is 2^64 - 1; only its first round is listed.
SRPathAccesses(np, closed) ==
    LET copied == 0 .. (np - 1)
        rounds == IF np = 0 THEN {0} ELSE 0 .. (np - 2)
        inLoop == UNION {{i, i + 1} : i \in rounds}
        last   == IF closed THEN {np - 1, 0} ELSE {np - 1, np - 2}
    IN  copied \cup inLoop \cup last

\* CalcPathPoints that closes every path: the last segment runs back to the
\* first point on an open path too.
CalcPathPoints_Wraps(c, p) ==
    LET np == NumPoints(p)
        S  == [i \in 1..np |-> p.pts[i]]
        R  == [i \in 1..np |-> IF i < np THEN VSub(S[i + 1], S[i]) ELSE VSub(S[1], S[np])]
    IN  [c EXCEPT !.S_l = S, !.R_l = R, !.R_lu = [i \in 1..np |-> Normalize(R[i])]]

\* ChPathSteeringControllerSR::CalcPathPoints.  S_l, R_l and R_lu are 1-based
\* here: S_l[i + 1] is the S_l[i] of the source.
CalcPathPoints(c, p) ==
    LET np == NumPoints(p)
        S  == [i \in 1..np |-> p.pts[i]]
        R  == [i \in 1..np |->
                  IF i < np THEN VSub(S[i + 1], S[i])
                  ELSE IF c.m_isClosedPath THEN VSub(S[1], S[np])
                  ELSE VSub(S[np], S[np - 1])]
    IN  [c EXCEPT !.S_l = S, !.R_l = R, !.R_lu = [i \in 1..np |-> Normalize(R[i])]]

\* ChPathSteeringControllerSR::ChPathSteeringControllerSR(path, isClosedPath,
\* max_wheel_turn_angle, axle_space)
SRCtor(p, max_wheel_turn_angle, axle_space) ==
    CalcPathPoints(
        BaseCtor @@
        [m_isClosedPath |-> p.closed, m_Klat |-> 0, m_Kug |-> 0, m_Tp |-> SR_Tp_default,
         m_L |-> axle_space, m_delta |-> 0, m_delta_max |-> max_wheel_turn_angle,
         m_umin |-> SR_umin, m_idx_curr |-> 0, S_l |-> <<>>, R_l |-> <<>>, R_lu |-> <<>>],
        p)

\* ChPathSteeringControllerSR::ChPathSteeringControllerSR(filename, ...).
\* m_Klat, m_Kug and m_Tp are not in the initializer list: when the
\* constructor returns early they keep the indeterminate values of junk.
SRCtorFile(p, max_wheel_turn_angle, axle_space, d, junk) ==
    LET c0 == CalcPathPoints(
                  BaseCtor @@
                  [m_isClosedPath |-> p.closed, m_Klat |-> junk.Klat, m_Kug |-> junk.Kug,
                   m_Tp |-> junk.Tp, m_L |-> axle_space, m_delta |-> 0,
                   m_delta_max |-> max_wheel_turn_angle, m_umin |-> SR_umin_file,
                   m_idx_curr |-> 0, S_l |-> <<>>, R_l |-> <<>>, R_lu |-> <<>>],
                  p)
    IN  IF d.IsNull THEN c0
        ELSE [c0 EXCEPT !.m_Klat = d.Klat, !.m_Kug = d.Kug, !.m_Tp = d.PreviewTime]

\* A Reset that starts the segment search again at the first segment.
SRReset_Rewind(c, veh) ==
    [BaseReset(c, veh) EXCEPT !.m_Klat = 0, !.m_Kug = 0, !.m_idx_curr = 0]

\* ChPathSteeringControllerSR::Reset
SRReset(c, veh) == [BaseReset(c, veh) EXCEPT !.m_Klat = 0, !.m_Kug = 0]

\* A SetGains that stores its arguments as they come.
SRSetGains_Raw(c, Klat, Kug) == [c EXCEPT !.m_Klat = Klat, !.m_Kug = Kug]

\* ChPathSteeringControllerSR::SetGains
SRSetGains(c, Klat, Kug) ==
    [c EXCEPT !.m_Klat = Abs(Klat), !.m_Kug = ChClamp(Kug, 0, Fx(5))]

\* ChPathSteeringControllerSR::SetPreviewTime
SetPreviewTime(c, Tp) == [c EXCEPT !.m_Tp = ChClamp(Tp, Scale \div 5, Fx(4))]

\* The value of a double that is not a number (the result of 0 / 0 and of
\* the sine of an infinite angle), and the vector of three such values.
NaN == -(Scale * Scale * Scale)

VNaN == Vec(NaN, NaN, NaN)

\* The turn radius R of the SR Advance at the speed u, for m_delta # 0;
\* m_Kug is in degrees per g.
SRTurnRadius(c, u) ==
    FxDiv(c.m_L + FxDiv(FxMul(FxMul(FxMul(CH_C_DEG_TO_RAD, c.m_Kug), u), u), g), c.m_delta)

\* The sentinel of the SR Advance with the look-ahead taken from the speed
\* itself, however low.
SRSentinel_Unclamped(c, veh) ==
    LET u   == GetSpeed(veh)
        n_g == Normalize(Project(veh.yaxis))
        ahead == TransformPointLocalToParent(veh, VScale(Forward, FxMul(u, c.m_Tp)))
    IN  IF c.m_delta = 0 THEN ahead
        ELSE LET R == SRTurnRadius(c, u)
             IN  VAdd(ahead, VScale(VSub(n_g, RotateVertical(FxDiv(FxMul(u, c.m_Tp), R), n_g)), R))

\* The sentinel location of the SR Advance: straight ahead when m_delta is 0,
\* else on the arc of the turn radius R.  With R = 0 the angle theta is
\* infinite (or 0 / 0) and the location is not a number.
SRSentinel(c, veh) ==
    LET u      == GetSpeed(veh)
        n_g    == Normalize(Project(veh.yaxis))
        ut     == IF u > c.m_umin THEN u ELSE c.m_umin
        factor == FxMul(ut, c.m_Tp)
        ahead  == TransformPointLocalToParent(veh, VScale(Forward, factor))
    IN  IF c.m_delta = 0 THEN ahead
        ELSE IF c.m_delta = NaN \/ SRTurnRadius(c, u) = 0 THEN VNaN
        ELSE LET R == SRTurnRadius(c, u)
                 theta == FxDiv(FxMul(u, c.m_Tp), R)
             IN  VAdd(ahead, VScale(VSub(n_g, RotateVertical(theta, n_g)), R))

\* Pt, rt and t of the SR Advance for the segment with (0-based) index idx.
SRProjection(c, idx) ==
    LET Pt == VSub(c.m_sentinel, c.S_l[idx + 1])
    IN  [Pt |-> Pt, rt |-> Length(c.R_l[idx + 1]), t |-> Abs(Vdot(Pt, c.R_lu[idx + 1]))]

\* The while loop of the SR Advance on a closed path, entered at idx with n
\* segments not yet tried: the index it stops at, or -1 when it has tried
\* every segment and is back where it started (it then runs for ever).
RECURSIVE SRScanClosed(_, _, _)
SRScanClosed(c, idx, n) ==
    LET pr == SRProjection(c, idx)
    IN  IF ~(pr.t > pr.rt) THEN idx
        ELSE IF n = 0 THEN -1
        ELSE SRScanClosed(c, IF idx + 1 = Len(c.S_l) THEN 0 ELSE idx + 1, n - 1)

\* The segment search of the SR Advance: m_idx_curr when the search ends, or
\* -1 when it does not end.  No comparison with a t that is not a number
\* holds, so the search is not entered then.
SRSearch(c) ==
    LET pr == SRProjection(c, c.m_idx_curr)
    IN  IF c.m_sentinel = VNaN THEN c.m_idx_curr
        ELSE IF ~(pr.t >= pr.rt) \/ ~(pr.t > pr.rt) THEN c.m_idx_curr
        ELSE IF c.m_isClosedPath THEN SRScanClosed(c, c.m_idx_curr, Len(c.S_l))
        ELSE IF c.m_idx_curr + 1 = Len(c.S_l) THEN Len(c.S_l) - 1
        ELSE c.m_idx_curr + 1

\* Whether the call Advance(veh, step) on the SR controller c never returns.
SRHangs(c, veh) == SRSearch([c EXCEPT !.m_sentinel = SRSentinel(c, veh)]) = -1

\* The steering angle update that leaves out the minimum speed itself.
SRSteer_Above(c, u) ==
    IF u > c.m_umin
    THEN [c EXCEPT !.m_delta =
              ChClamp(c.m_delta + FxMul(c.m_Klat, c.m_err), -c.m_delta_max, c.m_delta_max)]
    ELSE c

\* The steering angle update of the SR Advance, at the speed u.  ChClamp
\* returns a value that is not a number as it is.
SRSteer(c, u) ==
    IF u >= c.m_umin
    THEN [c EXCEPT !.m_delta =
              IF c.m_err = NaN \/ c.m_delta = NaN THEN NaN
              ELSE ChClamp(c.m_delta + FxMul(c.m_Klat, c.m_err),
                           -c.m_delta_max, c.m_delta_max)]
    ELSE c

\* ChPathSteeringControllerSR::Advance (when it returns): the controller after
\* the call.
SRAdvance(c, veh, step) ==
    LET u == GetSpeed(veh)
        Measured(c4, pr) ==
            SRSteer([c4 EXCEPT !.m_err =
                         IF c4.m_sentinel = VNaN THEN NaN
                         ELSE Vdot(pr.Pt, Vcross(c4.R_lu[c4.m_idx_curr + 1], Vertical))],
                    u)
        Targeted(c2, pr) ==
            Measured(LogRow([c2 EXCEPT !.m_target =
                                 IF c2.m_sentinel = VNaN THEN VNaN
                                 ELSE VAdd(c2.S_l[c2.m_idx_curr + 1],
                                           VScale(c2.R_lu[c2.m_idx_curr + 1], pr.t))],
                            veh),
                     pr)
        Searched(c2) == Targeted(c2, SRProjection(c2, c2.m_idx_curr))
        Located(c1) == Searched([c1 EXCEPT !.m_idx_curr = SRSearch(c1)])
    IN  Located([c EXCEPT !.m_sentinel = SRSentinel(c, veh)])

\* The value the SR Advance returns.
SROutput(c) == IF c.m_delta = NaN THEN NaN ELSE FxDiv(c.m_delta, c.m_delta_max)

\* ------------------------------------------------------------------------
\* ChPathSteeringControllerXT
\* ------------------------------------------------------------------------

\* m_R_threshold(100000.0)
XT_R_threshold == 100000000

\* The default m_max_wheel_turn_angle(25.0 * CH_C_DEG_TO_RAD)
XT_max_wheel_turn_angle == FxMul(Fx(25), CH_C_DEG_TO_RAD)

\* m_T1_delay(30.0 / 1000.0)
XT_T1_delay == 30

\* m_Kp(0.4)
XT_Kp == 400

\* The time constants 0.3 and 0.15 of m_PathErrCtl.Config.
XT_Td1 == 300

XT_T1 == 150

\* ChPathSteeringControllerXT::ChPathSteeringControllerXT(path, isClosedPath,
\* max_wheel_turn_angle).  m_Kp_xt is the m_Kp of the XT class.
XTCtor(p, max_wheel_turn_angle) ==
    LET c0 == BaseCtor @@
              [m_R_threshold |-> XT_R_threshold,
               m_max_wheel_turn_angle |-> XT_max_wheel_turn_angle,
               m_filters_initialized |-> FALSE, m_T1_delay |-> XT_T1_delay,
               m_Kp_xt |-> XT_Kp, m_Wy |-> Scale, m_Wh |-> Scale, m_Wa |-> Scale, m_res |-> 0,
               m_tracker |-> 1, m_vel |-> VZero, m_pcurvature |-> 0,
               m_ptangent |-> VZero, m_pnormal |-> VZero, m_pbinormal |-> VZero,
               m_HeadErrDelay |-> NoFilter, m_AckermannAngleDelay |-> NoFilter,
               m_PathErrCtl |-> NoFilter]
    IN  IF max_wheel_turn_angle > 0
        THEN [c0 EXCEPT !.m_max_wheel_turn_angle = max_wheel_turn_angle]
        ELSE c0

\* ChPathSteeringControllerXT::ChPathSteeringControllerXT(filename, ...)
XTCtorFile(p, max_wheel_turn_angle, d) ==
    LET c0 == XTCtor(p, max_wheel_turn_angle)
    IN  IF d.IsNull THEN c0
        ELSE [c0 EXCEPT !.m_Kp_xt = d.Kp, !.m_Wy = d.Wy, !.m_Wh = d.Wh, !.m_Wa = d.Wa,
                        !.m_dist = d.LookaheadDistance]

\* ChPathSteeringControllerXT::CalcTargetLocation
XTCalcTargetLocation(c, p) ==
    LET Found(tnb) ==
            [c EXCEPT !.m_target = tnb.pos, !.m_pcurvature = tnb.curvature,
                      !.m_ptangent = tnb.tangent, !.m_pnormal = tnb.normal,
                      !.m_pbinormal = tnb.binormal, !.m_tracker = tnb.cursor]
    IN  Found(calcClosestPoint(p, c.m_sentinel))

\* ChPathSteeringControllerXT::Reset
XTReset(c, veh, p) ==
    LET c1 == BaseReset(c, veh)
    IN  [c1 EXCEPT !.m_tracker = TrackerReset(p, c1.m_sentinel)]

\* The direction a the XT CalcHeadingError works with: the normalized
\* projected velocity unless its length is below 1, then the chassis axis a.
XTMotionDirection(c, a) ==
    LET vel   == Normalize(Project(c.m_vel))
        speed == Length(vel)
    IN  IF speed < Scale THEN Normalize(Project(a)) ELSE vel

\* ChPathSteeringControllerXT::CalcHeadingError: the angle returned.
XTCalcHeadingError(c, a, b) ==
    LET Angle(a1, b1) ==
            FxAsin(Height(IF Length(VSub(a1, b1)) < Scale
                          THEN Vcross(a1, b1)
                          ELSE Vcross(a1, VNeg(b1))))
    IN  Angle(XTMotionDirection(c, a), Normalize(Project(b)))

\* CalcCurvatureCode with the threshold itself counted as a curve.
XTCalcCurvatureCode_Strict(c, a, b) ==
    IF c.m_pcurvature < FxDiv(Scale, c.m_R_threshold) THEN 0
    ELSE IF Length(VSub(Normalize(Project(a)), Normalize(Project(b)))) < Scale THEN 1
    ELSE -1

\* ChPathSteeringControllerXT::CalcCurvatureCode
XTCalcCurvatureCode(c, a, b) ==
    LET a1    == Normalize(Project(a))
        b1    == Normalize(Project(b))
        ltest == Length(VSub(a1, b1))
    IN  IF c.m_pcurvature <= FxDiv(Scale, c.m_R_threshold) THEN 0
        ELSE IF ltest < Scale THEN 1
        ELSE -1

\* ChPathSteeringControllerXT::CalcAckermannAngle
XTCalcAckermannAngle(c) == FxSin(FxMul(c.m_res, c.m_max_wheel_turn_angle))

\* A filter setup that is repeated by every Advance, with the step of the call.
XTInitFilters_EveryCall(c, step) ==
    [c EXCEPT !.m_HeadErrDelay = PT1Config(step, c.m_T1_delay),
              !.m_AckermannAngleDelay = PT1Config(step, c.m_T1_delay),
              !.m_PathErrCtl = PDT1Config(step, XT_Td1, XT_T1, c.m_Kp_xt),
              !.m_filters_initialized = TRUE]

\* The filter setup of the first XT Advance.
XTInitFilters(c, step) ==
    IF ~c.m_filters_initialized
    THEN [c EXCEPT !.m_HeadErrDelay = PT1Config(step, c.m_T1_delay),
                   !.m_AckermannAngleDelay = PT1Config(step, c.m_T1_delay),
                   !.m_PathErrCtl = PDT1Config(step, XT_Td1, XT_T1, c.m_Kp_xt),
                   !.m_filters_initialized = TRUE]
    ELSE c

\* The constraint without the counter steer part: the same clamp in every curve.
XTConstrain_Symmetric(res, crvcode) == ChClamp(res, -Scale, Scale)

\* The counter steer constraint of the XT Advance.
XTConstrain(res, crvcode) ==
    CASE crvcode = 1  -> ChClamp(res, 0, Scale)
      [] crvcode = -1 -> ChClamp(res, -Scale, 0)
      [] OTHER        -> ChClamp(res, -Scale, Scale)

\* ChPathSteeringControllerXT::Advance: the controller after the call.
XTAdvance(c, veh, step, p) ==
    LET Constrained(c7, res) ==
            [c7 EXCEPT !.m_res =
                 XTConstrain(res, XTCalcCurvatureCode(c7, veh.yaxis, c7.m_pnormal))]
        Blended(c7) ==
            Constrained(c7, FxMul(c7.m_Wy, c7.m_PathErrCtl.y)
                              + FxMul(c7.m_Wh, c7.m_HeadErrDelay.y)
                              + FxMul(c7.m_Wa, c7.m_AckermannAngleDelay.y))
        Delayed(c6) ==
            Blended([c6 EXCEPT !.m_AckermannAngleDelay =
                         FilterStep(@, XTCalcAckermannAngle(c6))])
        Headed(c5) ==
            Delayed([c5 EXCEPT !.m_vel = Normalize(Project(@)),
                               !.m_HeadErrDelay =
                                   FilterStep(@, XTCalcHeadingError(c5, veh.xaxis,
                                                                    c5.m_ptangent))])
        Measured(c4) ==
            Headed([c4 EXCEPT !.m_PathErrCtl = FilterStep(@, LateralError(c4, veh))])
        Located(c1) ==
            Measured(LogRow(XTCalcTargetLocation(XTInitFilters(c1, step), p), veh))
    IN  Located([c EXCEPT !.m_sentinel = SentinelLocation(c, veh),
                          !.m_vel = GetPointVelocity(veh)])

\* The value the XT Advance returns.
XTOutput(c) == c.m_res

\* ------------------------------------------------------------------------
\* ChPathSteeringControllerStanley
\* ------------------------------------------------------------------------

\* m_umin(1), m_Treset(30.0), m_Tdelay(0.4)
Stanley_umin == 1000

Stanley_Treset == 30000

Stanley_Tdelay == 400

\* ChPathSteeringControllerStanley::SetGains
StanleySetGains(c, Kp, Ki, Kd) ==
    [c EXCEPT !.m_Kp = Abs(Kp), !.m_Ki = Abs(Ki), !.m_Kd = Abs(Kd)]

\* ChPathSteeringControllerStanley::ChPathSteeringControllerStanley(path,
\* isClosedPath, max_wheel_turn_angle)
StanleyCtor(p, max_wheel_turn_angle) ==
    StanleySetGains(
        BaseCtor @@
        [m_delayFilter |-> NoFilter, m_isClosedPath |-> p.closed, m_delta |-> 0,
         m_delta_max |-> max_wheel_turn_angle, m_umin |-> Stanley_umin,
         m_Treset |-> Stanley_Treset, m_deadZone |-> 0, m_Tdelay |-> Stanley_Tdelay,
         m_tracker |-> 1, m_ptangent |-> VZero, m_pcurvature |-> 0],
        0, 0, 0)

\* ChPathSteeringControllerStanley::ChPathSteeringControllerStanley(filename, ...)
StanleyCtorFile(p, max_wheel_turn_angle, d) ==
    LET c0 == StanleyCtor(p, max_wheel_turn_angle)
    IN  IF d.IsNull THEN c0
        ELSE LET c1 == [c0 EXCEPT !.m_Kp = d.Kp, !.m_Kd = d.Kd, !.m_Ki = d.Ki]
                 c2 == IF d.HasLookaheadDistance
                       THEN [c1 EXCEPT !.m_dist = d.LookaheadDistance] ELSE c1
             IN  IF d.HasDeadZone THEN [c2 EXCEPT !.m_deadZone = d.DeadZone] ELSE c2

\* ChPathSteeringControllerStanley::Reset
StanleyReset(c, veh) == BaseReset(c, veh)

\* ChPathSteeringControllerStanley::CalcTargetLocation
StanleyCalcTargetLocation(c, p) ==
    LET Found(tnb) ==
            [c EXCEPT !.m_target = tnb.pos, !.m_pcurvature = tnb.curvature,
                      !.m_ptangent = tnb.tangent, !.m_tracker = tnb.cursor]
    IN  Found(calcClosestPoint(p, c.m_sentinel))

\* ChPathSteeringControllerStanley::CalcHeadingError
StanleyCalcHeadingError(a, b) ==
    FxAsin(Height(Vcross(Normalize(Project(a)), Normalize(Project(b)))))

\* A dead zone without the transition: no weight up to the dead zone, full
\* weight beyond.
StanleyWeight_Hard(c, err) ==
    IF c.m_deadZone > 0 /\ Abs(err) <= c.m_deadZone THEN 0 ELSE Scale

\* The dead zone weight of the Stanley Advance.
StanleyWeight(c, err) ==
    IF c.m_deadZone > 0
    THEN ChSineStep(Abs(err), c.m_deadZone, 0, 2 * c.m_deadZone, Scale)
    ELSE Scale

\* The countdown of the Stanley Advance.
StanleyCountdown(c, step) ==
    LET c1 == [c EXCEPT !.m_Treset = @ - step]
    IN  IF c1.m_Treset <= 0
        THEN [c1 EXCEPT !.m_Treset = Stanley_Treset, !.m_err = 0]
        ELSE c1

\* ChPathSteeringControllerStanley::Advance: the controller after the call.
StanleyAdvance(c, veh, step, p) ==
    LET u == GetSpeed(veh)
        Delayed(c7, steer) == [c7 EXCEPT !.m_delayFilter = FilterStep(@, steer)]
        Steered(c6) ==
            Delayed(StanleyCountdown(c6, step),
                    ChClamp(FxDiv(c6.m_delta, c6.m_delta_max), -Scale, Scale))
        Controlled(c5, at) ==
            Steered([c5 EXCEPT !.m_delta =
                         StanleyCalcHeadingError(veh.xaxis, c5.m_ptangent) + at
                           + FxMul(c5.m_Kd, FxMul(-u, FxSin(at)))
                           + FxMul(c5.m_Ki, c5.m_erri)])
        Integrated(c4, err) ==
            Controlled([c4 EXCEPT !.m_erri = @ + Trunc(FxMul(err + c4.m_err, step), 2),
                                  !.m_err = err],
                       FxAtan(FxDiv(FxMul(c4.m_Kp, err), ChClamp(u, c4.m_umin, u))))
        Weighted(c4, raw) == Integrated(c4, FxMul(raw, StanleyWeight(c4, raw)))
        Measured(c4) == Weighted(c4, LateralError(c4, veh))
        Located(c2) == Measured(LogRow(StanleyCalcTargetLocation(c2, p), veh))
        Configured(c1) == Located([c1 EXCEPT !.m_sentinel = SentinelLocation(c1, veh)])
    IN  Configured(IF ~c.m_delayFilter.configured
                   THEN [c EXCEPT !.m_delayFilter = PT1Config(step, c.m_Tdelay)]
                   ELSE c)

\* The value the Stanley Advance returns.
StanleyOutput(c) == c.m_delayFilter.y

\* ------------------------------------------------------------------------
\* Inputs
\* ------------------------------------------------------------------------

\* At most MaxAdvance calls of Advance are explored in one behaviour.
MaxAdvance == 2

\* At most MaxRows rows are collected in the log buffer.
MaxRows == 2

\* A straight open path along +X, an open path with a left bend, and a closed
\* square driven counter-clockwise.
StraightPath ==
    [pts |-> <<Vec(0, 0, 0), Vec(Fx(8), 0, 0)>>, closed |-> FALSE,
     curv |-> <<0>>, left |-> <<TRUE>>]

BendPath ==
    [pts |-> <<Vec(0, 0, 0), Vec(Fx(4), 0, 0), Vec(Fx(4), Fx(4), 0)>>, closed |-> FALSE,
     curv |-> <<0, Scale \div 4>>, left |-> <<TRUE, TRUE>>]

SquarePath ==
    [pts |-> <<Vec(0, 0, 0), Vec(Fx(4), 0, 0), Vec(Fx(4), Fx(4), 0), Vec(0, Fx(4), 0)>>,
     closed |-> TRUE,
     curv |-> <<0, Scale \div 4, 0, Scale \div 4>>, left |-> <<TRUE, TRUE, TRUE, TRUE>>]

\* Vehicle snapshots: on the path heading along it; right of the path (the
\* path is to the left); left of the path, raised and standing still; heading
\* straight at the path from the right; far from the path.
OnPath == Pose(Vec(0, 0, 0), Scale, 0, Vec(Fx(2), 0, 0)) @@ [time |-> 0]

RightOfPath == Pose(Vec(Fx(1), -Fx(2), 0), Scale, 0, Vec(Fx(3), 0, 0)) @@ [time |-> 1]

LeftOfPath == Pose(Vec(Fx(1), Fx(2), Fx(1)), Scale, 0, VZero) @@ [time |-> 2]

Crossing == Pose(Vec(Fx(2), -Fx(8), 0), 0, Scale, Vec(0, Fx(1), 0)) @@ [time |-> 3]

FarAway == Pose(Vec(Fx(9), Fx(9), 0), Scale, 0, Vec(Fx(3), 0, 0)) @@ [time |-> 4]

\* Beside the second segment of BendPath: driving along it, and driving
\* against it.
OnBend == Pose(Vec(Fx(3), Fx(2), 0), 0, Scale, Vec(0, Fx(2), 0)) @@ [time |-> 5]

AgainstBend == Pose(Vec(Fx(3), Fx(2), 0), 0, -Scale, Vec(0, -Fx(2), 0)) @@ [time |-> 6]

\* Beyond the far corner of SquarePath, heading along +X.
PastCorner == Pose(Vec(Fx(9), Fx(6), 0), Scale, 0, Vec(Fx(3), 0, 0)) @@ [time |-> 7]

\* Values an uninitialized double member may hold.
Indeterminate ==
    {[Kp |-> 0, Ki |-> 0, Kd |-> 0, dist |-> 0, Klat |-> 0, Kug |-> 0, Tp |-> 0],
     [Kp |-> Fx(7), Ki |-> -Fx(3), Kd |-> Fx(1), dist |-> Fx(2),
      Klat |-> -Fx(1), Kug |-> Fx(9), Tp |-> Fx(6)]}

\* Parsed configuration documents: the null document of an absent or
\* malformed file, and a well-formed one.
NullDocument == [IsNull |-> TRUE]

GoodDocument ==
    [IsNull |-> FALSE, Kp |-> Fx(1), Ki |-> Scale \div 2, Kd |-> Scale \div 2,
     LookaheadDistance |-> Fx(5),
     Klat |-> Scale \div 5, Kug |-> Fx(1), PreviewTime |-> Fx(1),
     Wy |-> Fx(2), Wh |-> Scale \div 2, Wa |-> 0,
     HasLookaheadDistance |-> TRUE, HasDeadZone |-> TRUE, DeadZone |-> Fx(1)]

\* Constructor arguments max_wheel_turn_angle and axle_space.
WheelTurnAngles == {Scale \div 2}

\* For the XT constructors, which replace a value that is not positive.
XTWheelTurnAngles == {0, Scale \div 2}

AxleSpaces == {Fx(2) + Scale \div 2}

FileNames == {"steering.out"}

\* The inputs of the specification Spec (every operation) and the richer ones
\* of SpecControl (the control path only).
SmallInputs ==
    [paths     |-> [PID |-> {StraightPath}, XT |-> {BendPath}, SR |-> {SquarePath},
                    Stanley |-> {StraightPath}],
     documents |-> {NullDocument, GoodDocument},
     snapshots |-> [PID |-> {OnPath, RightOfPath}, XT |-> {OnPath, RightOfPath},
                    SR |-> {RightOfPath, FarAway}, Stanley |-> {OnPath, RightOfPath}],
     steps     |-> [PID |-> {Fx(1)}, XT |-> {Fx(1)}, SR |-> {Fx(1)}, Stanley |-> {Fx(1)}],
     gains     |-> {<<Fx(2), Fx(1), Fx(1)>>},
     srGains   |-> {<<Scale \div 5, Fx(1)>>},
     previewTimes |-> {Fx(1)},
     stanleyGains |-> {<<-Fx(1), Scale \div 2, 0>>}]

RichInputs ==
    [paths     |-> [PID |-> {StraightPath, BendPath},
                    XT  |-> {BendPath},
                    SR  |-> {BendPath, SquarePath},
                    Stanley |-> {StraightPath}],
     documents |-> {NullDocument, GoodDocument},
     snapshots |-> [PID |-> {OnPath, RightOfPath, LeftOfPath, Crossing},
                    XT  |-> {OnPath, RightOfPath, OnBend, AgainstBend},
                    SR  |-> {FarAway, Crossing, PastCorner},
                    Stanley |-> {OnPath, RightOfPath, LeftOfPath}],
     steps     |-> [PID |-> {Scale \div 2, Fx(1)}, XT |-> {Scale \div 2, Fx(1)},
                    SR |-> {Fx(1)}, Stanley |-> {Fx(1), Fx(15)}],
     gains     |-> {<<Fx(1), 0, 0>>, <<Fx(2), Fx(1), Fx(1)>>},
     srGains   |-> {<<-(Scale \div 10), Fx(6)>>},
     previewTimes |-> {Fx(5)},
     stanleyGains |-> {<<Fx(1), 0, Fx(1)>>}]

\* ------------------------------------------------------------------------
\* State
\* ------------------------------------------------------------------------

VARIABLES
    pc,        \* "idle", or "Advance" while a call of Advance has not returned
    kind,      \* the class of the controller object
    ctor,      \* how it was constructed: from a file or not, document null or not
    ctl,       \* its data members
    path,      \* the path it was constructed on
    vehicle,   \* the vehicle snapshot passed to the last Reset or Advance
    files,     \* the files written by WriteOutputFile
    lastOp,    \* the last member function called
    ret,       \* the value returned by the last Advance
    nAdv,      \* number of Advance calls made
    hist       \* (error, step) of each Advance since construction or Reset

vars == <<pc, kind, ctor, ctl, path, vehicle, files, lastOp, ret, nAdv, hist>>

NoFiles == [f \in FileNames |-> [written |-> FALSE, rows |-> <<>>]]

\* The record of a construction: by the constructor that reads a file or not,
\* whether the parsed document was null, and the arguments
\* max_wheel_turn_angle and axle_space (0 where the constructor has none).
Built(file, null, angle, axle) ==
    [file |-> file, null |-> null, max_wheel_turn_angle |-> angle, axle_space |-> axle]

\* Construction of a PID path controller, by either constructor.
InitPID(inp) ==
    /\ kind = "PID"
    /\ path \in inp.paths.PID
    /\ \/ /\ ctl = PIDCtor
          /\ ctor = Built(FALSE, FALSE, 0, 0)
       \/ \E d \in inp.documents, junk \in Indeterminate :
             /\ ctl = PIDCtorFile(d, junk)
             /\ ctor = Built(TRUE, d.IsNull, 0, 0)

\* Construction of an SR controller, by either constructor.
InitSR(inp) ==
    /\ kind = "SR"
    /\ path \in inp.paths.SR
    /\ \E a \in WheelTurnAngles, l \in AxleSpaces :
          \/ /\ ctl = SRCtor(path, a, l)
             /\ ctor = Built(FALSE, FALSE, a, l)
          \/ \E d \in inp.documents, junk \in Indeterminate :
                /\ ctl = SRCtorFile(path, a, l, d, junk)
                /\ ctor = Built(TRUE, d.IsNull, a, l)

\* Construction of an XT controller, by either constructor.
InitXT(inp) ==
    /\ kind = "XT"
    /\ path \in inp.paths.XT
    /\ \E a \in XTWheelTurnAngles :
          \/ /\ ctl = XTCtor(path, a)
             /\ ctor = Built(FALSE, FALSE, a, 0)
          \/ \E d \in inp.documents :
                /\ ctl = XTCtorFile(path, a, d)
                /\ ctor = Built(TRUE, d.IsNull, a, 0)

\* Construction of a Stanley controller, by either constructor.
InitStanley(inp) ==
    /\ kind = "Stanley"
    /\ path \in inp.paths.Stanley
    /\ \E a \in WheelTurnAngles :
          \/ /\ ctl = StanleyCtor(path, a)
             /\ ctor = Built(FALSE, FALSE, a, 0)
          \/ \E d \in inp.documents :
                /\ ctl = StanleyCtorFile(path, a, d)
                /\ ctor = Built(TRUE, d.IsNull, a, 0)

InitWith(inp) ==
    /\ InitPID(inp) \/ InitXT(inp) \/ InitSR(inp) \/ InitStanley(inp)
    /\ pc = "idle"
    /\ vehicle = OnPath
    /\ files = NoFiles
    /\ lastOp = "ctor"
    /\ ret = 0
    /\ nAdv = 0
    /\ hist = <<>>

\* SetGains(Kp, Ki, Kd) on a PID path controller.
DoSetGains(inp) ==
    /\ pc = "idle"
    /\ kind = "PID"
    /\ \E k \in inp.gains : ctl' = SetGains(ctl, k[1], k[2], k[3])
    /\ lastOp' = "SetGains"
    /\ UNCHANGED <<pc, kind, ctor, path, vehicle, files, ret, nAdv, hist>>

\* SetGains(Klat, Kug) on an SR controller.
DoSRSetGains(inp) ==
    /\ pc = "idle"
    /\ kind = "SR"
    /\ \E k \in inp.srGains : ctl' = SRSetGains(ctl, k[1], k[2])
    /\ lastOp' = "SetGains"
    /\ UNCHANGED <<pc, kind, ctor, path, vehicle, files, ret, nAdv, hist>>

\* SetPreviewTime(Tp) on an SR controller.
DoSetPreviewTime(inp) ==
    /\ pc = "idle"
    /\ kind = "SR"
    /\ \E Tp \in inp.previewTimes : ctl' = SetPreviewTime(ctl, Tp)
    /\ lastOp' = "SetPreviewTime"
    /\ UNCHANGED <<pc, kind, ctor, path, vehicle, files, ret, nAdv, hist>>

\* SetGains(Kp, Ki, Kd) on a Stanley controller.
DoStanleySetGains(inp) ==
    /\ pc = "idle"
    /\ kind = "Stanley"
    /\ \E k \in inp.stanleyGains : ctl' = StanleySetGains(ctl, k[1], k[2], k[3])
    /\ lastOp' = "SetGains"
    /\ UNCHANGED <<pc, kind, ctor, path, vehicle, files, ret, nAdv, hist>>

\* Virtual dispatch of Reset.
ResetOf(k, c, veh, p) ==
    CASE k = "PID" -> PIDReset(c, veh, p)
      [] k = "XT"  -> XTReset(c, veh, p)
      [] k = "SR"  -> SRReset(c, veh)
      [] k = "Stanley" -> StanleyReset(c, veh)

\* Whether the call Advance(veh, step) never returns.
AdvanceHangs(k, c, veh) == k = "SR" /\ SRHangs(c, veh)

\* Virtual dispatch of Advance: the controller after the call.
AdvanceOf(k, c, veh, step, p) ==
    CASE k = "PID" -> PIDAdvance(c, veh, step, p)
      [] k = "XT"  -> XTAdvance(c, veh, step, p)
      [] k = "SR"  -> SRAdvance(c, veh, step)
      [] k = "Stanley" -> StanleyAdvance(c, veh, step, p)

\* The value Advance returns, from the controller after the call.
OutputOf(k, c) ==
    CASE k = "PID" -> PIDOutput(c)
      [] k = "XT"  -> XTOutput(c)
      [] k = "SR"  -> SROutput(c)
      [] k = "Stanley" -> StanleyOutput(c)

DoReset(inp) ==
    /\ pc = "idle"
    /\ \E veh \in inp.snapshots[kind] :
          /\ ctl' = ResetOf(kind, ctl, veh, path)
          /\ vehicle' = veh
    /\ lastOp' = "Reset"
    /\ hist' = <<>>
    /\ UNCHANGED <<pc, kind, ctor, path, files, ret, nAdv>>

DoAdvance(inp) ==
    /\ pc = "idle"
    /\ nAdv < MaxAdvance
    /\ ctl.m_collect => Len(ctl.m_csv.rows) < MaxRows
    /\ \E veh \in inp.snapshots[kind], step \in inp.steps[kind] :
          /\ vehicle' = veh
          /\ IF AdvanceHangs(kind, ctl, veh)
             THEN /\ pc' = "Advance"
                  /\ ctl' = [ctl EXCEPT !.m_sentinel = SRSentinel(ctl, veh)]
                  /\ UNCHANGED <<hist, ret>>
             ELSE /\ pc' = "idle"
                  /\ ctl' = AdvanceOf(kind, ctl, veh, step, path)
                  /\ hist' = Append(hist, [err |-> ctl'.m_err, step |-> step])
                  /\ ret' = OutputOf(kind, ctl')
    /\ lastOp' = "Advance"
    /\ nAdv' = nAdv + 1
    /\ UNCHANGED <<kind, ctor, path, files>>

DoStartDataCollection ==
    /\ pc = "idle"
    /\ ctl' = StartDataCollection(ctl)
    /\ lastOp' = "StartDataCollection"
    /\ UNCHANGED <<pc, kind, ctor, path, vehicle, files, ret, nAdv, hist>>

DoStopDataCollection ==
    /\ pc = "idle"
    /\ ctl' = StopDataCollection(ctl)
    /\ lastOp' = "StopDataCollection"
    /\ UNCHANGED <<pc, kind, ctor, path, vehicle, files, ret, nAdv, hist>>

DoWriteOutputFile ==
    /\ pc = "idle"
    /\ \E f \in FileNames : files' = WriteOutputFile(ctl, files, f)
    /\ lastOp' = "WriteOutputFile"
    /\ UNCHANGED <<pc, kind, ctor, ctl, path, vehicle, ret, nAdv, hist>>

\* Every operation, on small inputs.
Init == InitWith(SmallInputs)

Next ==
    \/ DoSetGains(SmallInputs)
    \/ DoSRSetGains(SmallInputs)
    \/ DoSetPreviewTime(SmallInputs)
    \/ DoStanleySetGains(SmallInputs)
    \/ DoReset(SmallInputs)
    \/ DoAdvance(SmallInputs)
    \/ DoStartDataCollection
    \/ DoStopDataCollection
    \/ DoWriteOutputFile

Spec == Init /\ [][Next]_vars

\* The control path (setters, Reset, Advance), on richer inputs.
InitControl == InitWith(RichInputs)

NextControl ==
    \/ DoSetGains(RichInputs)
    \/ DoSRSetGains(RichInputs)
    \/ DoSetPreviewTime(RichInputs)
    \/ DoStanleySetGains(RichInputs)
    \/ DoReset(RichInputs)
    \/ DoAdvance(RichInputs)

SpecControl == InitControl /\ [][NextControl]_vars

\* The functions the controllers compute with, applied on their own:
\* CalcCurvatureCode and CalcHeadingError of the XT controller, the dead zone
\* of the Stanley controller and CalcPathPoints of the SR controller; and the
\* arguments of the setters, with the axle spaces, steer angles and speeds
\* the turn radius of the SR controller is computed from.
FunctionInputs ==
    [curvatures |-> {0, 1, Scale \div 4},
     directions |-> {Vec(Scale, 0, 0), Vec(0, Scale, 0), Vec(-Scale, 0, 0),
                     Vec(0, -Scale, 0), Vec(600, 800, 500), Vec(Fx(3), -Fx(1), Fx(4)),
                     Vec(0, 0, Scale)},
     deadZones  |-> {-Fx(1), 0, Scale \div 2, Fx(1)},
     errors     |-> {-Fx(3), -(Fx(1) + Scale \div 2), -Fx(1), -((3 * Scale) \div 4),
                     -(Scale \div 2), 0, Scale \div 4, Scale \div 2, (3 * Scale) \div 5,
                     (3 * Scale) \div 4, (9 * Scale) \div 10, Fx(1), Fx(1) + Scale \div 4,
                     Fx(1) + Scale \div 2, Fx(1) + (3 * Scale) \div 4, Fx(2), Fx(3)},
     velocities |-> {VZero, Vec(0, Scale \div 2, 0), Vec(300, 400, 0), Vec(Fx(3), 0, 0),
                     Vec(0, Fx(2), Fx(1)), Vec(-Fx(1), -Fx(1), 0)},
     points     |-> {<<>>, <<Vec(Fx(1), Fx(1), 0)>>, StraightPath.pts, BendPath.pts,
                     SquarePath.pts},
     arguments  |-> {-Fx(6), -(Scale \div 10), 0, Fx(2), Fx(6)},
     wheelbases |-> {0, Fx(2)},
     steers     |-> {-(Scale \div 2), Scale \div 4},
     speeds     |-> {0, Fx(1), Fx(5)},
     triples    |-> {<<-Fx(2), 0, Scale \div 2>>, <<Scale \div 2, -Fx(2), -(Scale \div 2)>>,
                     <<0, Fx(3), -Fx(3)>>}]

\* An XT controller whose last target computation left the curvature k, a
\* Stanley controller built from a document with a dead zone, or an SR
\* controller whose constructor has initialized its members and is about to
\* call CalcPathPoints.
InitFunctions ==
    /\ \/ /\ kind = "XT"
          /\ path = BendPath
          /\ \E k \in FunctionInputs.curvatures :
                ctl = [XTCtor(path, Scale \div 2) EXCEPT !.m_pcurvature = k]
          /\ ctor = Built(FALSE, FALSE, Scale \div 2, 0)
       \/ /\ kind = "Stanley"
          /\ path = StraightPath
          /\ \E dz \in FunctionInputs.deadZones :
                ctl = StanleyCtorFile(path, Scale \div 2, [GoodDocument EXCEPT !.DeadZone = dz])
          /\ ctor = Built(TRUE, FALSE, Scale \div 2, 0)
       \/ /\ kind = "SR"
          /\ \E q \in FunctionInputs.points, b \in BOOLEAN :
                path = [pts |-> q, closed |-> b]
          /\ ctl = [SRCtor(BendPath, Scale \div 2, Fx(2)) EXCEPT
                        !.m_isClosedPath = path.closed,
                        !.S_l = <<>>, !.R_l = <<>>, !.R_lu = <<>>]
          /\ ctor = Built(FALSE, FALSE, Scale \div 2, Fx(2))
    /\ pc = "idle"
    /\ vehicle = OnPath
    /\ files = NoFiles
    /\ lastOp = "ctor"
    /\ ret = 0
    /\ nAdv = 0
    /\ hist = <<>>

\* CalcCurvatureCode(a, b): hist keeps the arguments, ret the code.
DoCalcCurvatureCode ==
    /\ kind = "XT"
    /\ \E a \in FunctionInputs.directions, b \in FunctionInputs.directions :
          /\ ret' = XTCalcCurvatureCode(ctl, a, b)
          /\ hist' = <<[a |-> a, b |-> b]>>
    /\ lastOp' = "CalcCurvatureCode"
    /\ UNCHANGED <<pc, kind, ctor, ctl, path, vehicle, files, nAdv>>

\* CalcHeadingError(a, b) with the vehicle velocity vel in m_vel, as Advance
\* leaves it there: hist keeps vel and the arguments, ret the angle.  The
\* call leaves m_vel projected and normalized.
DoCalcHeadingError ==
    /\ kind = "XT"
    /\ \E vel \in FunctionInputs.velocities,
          a \in FunctionInputs.directions, b \in FunctionInputs.directions :
          /\ ret' = XTCalcHeadingError([ctl EXCEPT !.m_vel = vel], a, b)
          /\ ctl' = [ctl EXCEPT !.m_vel = Normalize(Project(vel))]
          /\ hist' = <<[vel |-> vel, a |-> a, b |-> b]>>
    /\ lastOp' = "CalcHeadingError"
    /\ UNCHANGED <<pc, kind, ctor, path, vehicle, files, nAdv>>

\* err *= w of the Stanley Advance: hist keeps the raw error, ret the error
\* the control law goes on with.
DoDeadZone ==
    /\ kind = "Stanley"
    /\ \E raw \in FunctionInputs.errors :
          /\ ret' = FxMul(raw, StanleyWeight(ctl, raw))
          /\ hist' = <<[raw |-> raw]>>
    /\ lastOp' = "DeadZone"
    /\ UNCHANGED <<pc, kind, ctor, ctl, path, vehicle, files, nAdv>>

\* SetGains(Klat, Kug) of an SR controller: hist keeps the arguments.
ApplySRSetGains ==
    /\ kind = "SR"
    /\ pc = "idle"
    /\ \E Klat \in FunctionInputs.arguments, Kug \in FunctionInputs.arguments :
          /\ ctl' = SRSetGains(ctl, Klat, Kug)
          /\ hist' = <<[args |-> <<Klat, Kug>>]>>
    /\ lastOp' = "SetGains"
    /\ UNCHANGED <<pc, kind, ctor, path, vehicle, files, ret, nAdv>>

\* SetPreviewTime(Tp) of an SR controller: hist keeps the argument.
ApplySetPreviewTime ==
    /\ kind = "SR"
    /\ pc = "idle"
    /\ \E Tp \in FunctionInputs.arguments :
          /\ ctl' = SetPreviewTime(ctl, Tp)
          /\ hist' = <<[args |-> <<Tp>>]>>
    /\ lastOp' = "SetPreviewTime"
    /\ UNCHANGED <<pc, kind, ctor, path, vehicle, files, ret, nAdv>>

\* SetGains(Kp, Ki, Kd) of a Stanley controller: hist keeps the arguments.
ApplyStanleySetGains ==
    /\ kind = "Stanley"
    /\ pc = "idle"
    /\ \E k \in FunctionInputs.triples :
          /\ ctl' = StanleySetGains(ctl, k[1], k[2], k[3])
          /\ hist' = <<[args |-> k]>>
    /\ lastOp' = "SetGains"
    /\ UNCHANGED <<pc, kind, ctor, path, vehicle, files, ret, nAdv>>

\* The turn radius an SR Advance computes at the speed u when the steer
\* angle it finds is delta # 0: hist keeps the two, ret the radius.
DoTurnRadius ==
    /\ kind = "SR"
    /\ pc = "idle"
    /\ \E delta \in FunctionInputs.steers, u \in FunctionInputs.speeds :
          /\ ret' = SRTurnRadius([ctl EXCEPT !.m_delta = delta], u)
          /\ hist' = <<[delta |-> delta, u |-> u]>>
    /\ lastOp' = "TurnRadius"
    /\ UNCHANGED <<pc, kind, ctor, ctl, path, vehicle, files, nAdv>>

\* CalcPathPoints() in the constructor of an SR controller: hist keeps the
\* indices it reads and writes.  With an index out of range the behaviour is
\* undefined: the call ends the program, or returns with whatever the reads
\* out of range delivered.
DoCalcPathPoints ==
    /\ kind = "SR"
    /\ pc = "idle"
    /\ lastOp = "ctor"
    /\ LET np  == NumPoints(path)
           acc == SRPathAccesses(np, ctl.m_isClosedPath)
       IN  /\ hist' = <<[accesses |-> acc]>>
           /\ IF acc \subseteq 0 .. (np - 1)
              THEN /\ ctl' = CalcPathPoints(ctl, path)
                   /\ pc' = "idle"
              ELSE \/ /\ pc' = "crashed"
                      /\ ctl' = ctl
                   \/ /\ pc' = "idle"
                      /\ \E junk \in FunctionInputs.directions :
                            ctl' = [ctl EXCEPT !.S_l = [i \in 1 .. np |-> path.pts[i]],
                                               !.R_l = [i \in 1 .. np |-> junk],
                                               !.R_lu = [i \in 1 .. np |-> Normalize(junk)]]
    /\ lastOp' = "CalcPathPoints"
    /\ UNCHANGED <<kind, ctor, path, vehicle, files, ret, nAdv>>

NextFunctions ==
    \/ DoCalcCurvatureCode
    \/ DoCalcHeadingError
    \/ DoDeadZone
    \/ DoCalcPathPoints

SpecFunctions == InitFunctions /\ [][NextFunctions]_vars

\* The parameters of the SR and the Stanley controller: a controller as its
\* constructor leaves it (the SR controller also with the axle space 0), the
\* setters called with the arguments of FunctionInputs, the turn radius the
\* SR Advance computes from them, and Advance.
ParameterInputs ==
    [RichInputs EXCEPT !.snapshots = [SR |-> {PastCorner}, Stanley |-> {RightOfPath}]]

InitParameters ==
    /\ \/ /\ kind = "SR"
          /\ path = BendPath
          /\ \E l \in FunctionInputs.wheelbases :
                /\ ctl = SRCtor(path, Scale \div 2, l)
                /\ ctor = Built(FALSE, FALSE, Scale \div 2, l)
       \/ /\ kind = "Stanley"
          /\ path = StraightPath
          /\ ctl = StanleyCtor(path, Scale \div 2)
          /\ ctor = Built(FALSE, FALSE, Scale \div 2, 0)
    /\ pc = "idle"
    /\ vehicle = OnPath
    /\ files = NoFiles
    /\ lastOp = "ctor"
    /\ ret = 0
    /\ nAdv = 0
    /\ hist = <<>>

NextParameters ==
    \/ ApplySRSetGains
    \/ ApplySetPreviewTime
    \/ ApplyStanleySetGains
    \/ DoTurnRadius
    \/ DoAdvance(ParameterInputs)

SpecParameters == InitParameters /\ [][NextParameters]_vars

\* Two controllers built on one path object.  In this specification kind,
\* ctor, ctl and ret are pairs, one entry for each controller; hist[i] is
\* controller i as it would be, with the value it last returned, had the same
\* calls been made on it alone, on a path of its own with the same points;
\* lastOp names the call and the controller it was made on; nAdv counts the
\* calls of any member function.
Instances == 1 .. 2

\* With m_sentinel a static member: a call on one controller writes the
\* sentinel of all of them.
OnInstance_StaticSentinel(cs, i, c) ==
    [j \in DOMAIN cs |-> IF j = i THEN c ELSE [cs[j] EXCEPT !.m_sentinel = c.m_sentinel]]

\* The controllers after a member function called on controller i has left
\* it as c: member functions assign the members of their own object only.
OnInstance(cs, i, c) == [cs EXCEPT ![i] = c]

InitShared ==
    LET junk == CHOOSE j \in Indeterminate : j.Kp = 0
        a    == Scale \div 2
        l    == Fx(2) + Scale \div 2
        BuiltOn(k, p) ==
            CASE k = "PID" -> PIDCtorFile(GoodDocument, junk)
              [] k = "XT"  -> XTCtorFile(p, a, GoodDocument)
              [] k = "SR"  -> SRCtorFile(p, a, l, GoodDocument, junk)
              [] k = "Stanley" -> StanleyCtorFile(p, a, GoodDocument)
    IN  /\ path = BendPath
        /\ kind \in {<<"PID", "PID">>, <<"PID", "SR">>, <<"XT", "Stanley">>, <<"SR", "SR">>}
        /\ ctl = [i \in Instances |-> BuiltOn(kind[i], path)]
        /\ ctor = [i \in Instances |->
                      Built(TRUE, FALSE, IF kind[i] = "PID" THEN 0 ELSE a,
                            IF kind[i] = "SR" THEN l ELSE 0)]
        /\ ret = [i \in Instances |-> 0]
        /\ hist = [i \in Instances |-> [ctl |-> BuiltOn(kind[i], BendPath), ret |-> 0]]
        /\ pc = "idle"
        /\ vehicle = OnPath
        /\ files = NoFiles
        /\ lastOp = [op |-> "ctor", on |-> 0]
        /\ nAdv = 0

\* Reset(vehicle) on controller i.
DoResetOn ==
    /\ pc = "idle"
    /\ nAdv < MaxAdvance
    /\ \E i \in Instances : \E veh \in SmallInputs.snapshots[kind[i]] :
          /\ ctl' = OnInstance(ctl, i, ResetOf(kind[i], ctl[i], veh, path))
          /\ hist' = [hist EXCEPT ![i].ctl = ResetOf(kind[i], @, veh, BendPath)]
          /\ vehicle' = veh
          /\ lastOp' = [op |-> "Reset", on |-> i]
    /\ nAdv' = nAdv + 1
    /\ UNCHANGED <<pc, kind, ctor, path, files, ret>>

\* Advance(vehicle, step) on controller i.
DoAdvanceOn ==
    /\ pc = "idle"
    /\ nAdv < MaxAdvance
    /\ \E i \in Instances :
          \E veh \in SmallInputs.snapshots[kind[i]], step \in SmallInputs.steps[kind[i]] :
             /\ vehicle' = veh
             /\ lastOp' = [op |-> "Advance", on |-> i]
             /\ IF AdvanceHangs(kind[i], ctl[i], veh)
                THEN /\ pc' = "Advance"
                     /\ ctl' = OnInstance(ctl, i, [ctl[i] EXCEPT !.m_sentinel =
                                                       SRSentinel(ctl[i], veh)])
                     /\ UNCHANGED <<hist, ret>>
                ELSE /\ pc' = "idle"
                     /\ ctl' = OnInstance(ctl, i, AdvanceOf(kind[i], ctl[i], veh, step, path))
                     /\ ret' = [ret EXCEPT ![i] = OutputOf(kind[i], ctl'[i])]
                     /\ hist' = [hist EXCEPT ![i] =
                                    LET alone == AdvanceOf(kind[i], @.ctl, veh, step, BendPath)
                                    IN  [ctl |-> alone, ret |-> OutputOf(kind[i], alone)]]
    /\ nAdv' = nAdv + 1
    /\ UNCHANGED <<kind, ctor, path, files>>

\* A setter, StartDataCollection or StopDataCollection on controller i.
DoConfigureOn ==
    /\ pc = "idle"
    /\ nAdv < MaxAdvance
    /\ \E i \in Instances :
          LET Calls ==
                  {[op |-> "StartDataCollection", arg |-> <<>>],
                   [op |-> "StopDataCollection", arg |-> <<>>]}
                    \cup (CASE kind[i] = "PID" ->
                                  {[op |-> "SetGains", arg |-> k] : k \in SmallInputs.gains}
                            [] kind[i] = "SR" ->
                                  {[op |-> "SetGains", arg |-> k] : k \in SmallInputs.srGains}
                                    \cup {[op |-> "SetPreviewTime", arg |-> <<Tp>>] :
                                             Tp \in SmallInputs.previewTimes}
                            [] kind[i] = "Stanley" ->
                                  {[op |-> "SetGains", arg |-> k] :
                                       k \in SmallInputs.stanleyGains}
                            [] OTHER -> {})
              After(c, call) ==
                  CASE call.op = "StartDataCollection" -> StartDataCollection(c)
                    [] call.op = "StopDataCollection" -> StopDataCollection(c)
                    [] call.op = "SetPreviewTime" -> SetPreviewTime(c, call.arg[1])
                    [] call.op = "SetGains" /\ kind[i] = "PID" ->
                           SetGains(c, call.arg[1], call.arg[2], call.arg[3])
                    [] call.op = "SetGains" /\ kind[i] = "SR" ->
                           SRSetGains(c, call.arg[1], call.arg[2])
                    [] call.op = "SetGains" /\ kind[i] = "Stanley" ->
                           StanleySetGains(c, call.arg[1], call.arg[2], call.arg[3])
          IN  \E call \in Calls :
                 /\ ctl' = OnInstance(ctl, i, After(ctl[i], call))
                 /\ hist' = [hist EXCEPT ![i].ctl = After(@, call)]
                 /\ lastOp' = [op |-> call.op, on |-> i]
    /\ nAdv' = nAdv + 1
    /\ UNCHANGED <<pc, kind, ctor, path, vehicle, files, ret>>

NextShared == DoResetOn \/ DoAdvanceOn \/ DoConfigureOn

SpecShared == InitShared /\ [][NextShared]_vars

\* ------------------------------------------------------------------------
\* Properties
\* ------------------------------------------------------------------------

\* The ground distance from the sentinel to the target.
GroundDistance(sentinel, target) ==
    LET dx == target.x - sentinel.x
        dy == target.y - sentinel.y
    IN  ISqrt(dx * dx + dy * dy)

\* The signed lateral error in exact arithmetic: the ground distance from the
\* sentinel to the target, positive when the target is to the left of the line
\* from the vehicle position pos through the sentinel, negative when it is to
\* the right, zero when the three are collinear.
SignedDistance(sentinel, target, pos) ==
    LET turn == (sentinel.x - pos.x) * (target.y - pos.y)
                  - (sentinel.y - pos.y) * (target.x - pos.x)
    IN  ChSignum(turn) * GroundDistance(sentinel, target)

\* The trapezoidal sum of the errors recorded in h (the error before the first
\* one is 0).
RECURSIVE TrapezoidSum(_)
TrapezoidSum(h) ==
    IF h = <<>> THEN 0
    ELSE LET n    == Len(h)
             prev == IF n = 1 THEN 0 ELSE h[n - 1].err
         IN  TrapezoidSum(SubSeq(h, 1, n - 1)) + Trunc(FxMul(h[n].err + prev, h[n].step), 2)

\* The gains and parameters of a controller of kind k.
Params(k, c) ==
    CASE k = "PID"     -> <<c.m_Kp, c.m_Ki, c.m_Kd, c.m_dist>>
      [] k = "XT"      -> <<c.m_Kp_xt, c.m_Wy, c.m_Wh, c.m_Wa, c.m_dist,
                            c.m_max_wheel_turn_angle, c.m_T1_delay, c.m_R_threshold>>
      [] k = "SR"      -> <<c.m_Klat, c.m_Kug, c.m_Tp, c.m_L, c.m_delta_max, c.m_umin>>
      [] k = "Stanley" -> <<c.m_Kp, c.m_Ki, c.m_Kd, c.m_dist, c.m_deadZone,
                            c.m_delta_max, c.m_Tdelay, c.m_umin>>

\* Gains Kp = 1, Ki = 0, Kd = 0.
UnitProportional(c) == c.m_Kp = Scale /\ c.m_Ki = 0 /\ c.m_Kd = 0

\* C1: the value returned by Advance, for every variant, lies in [-1, 1].
C1_OutputInRange ==
    (lastOp = "Advance" /\ pc = "idle") => (-Scale <= ret /\ ret <= Scale)

\* C2: after Reset, on every variant and whatever Advance calls came before,
\* the error, its integral and its derivative are 0 and the sentinel is the
\* origin of the vehicle reference frame moved forward by the look-ahead
\* distance.
C2_ResetClearsErrors ==
    lastOp = "Reset" =>
        /\ ctl.m_err = 0
        /\ ctl.m_erri = 0
        /\ ctl.m_errd = 0
        /\ ctl.m_sentinel = VAdd(vehicle.pos, VScale(vehicle.xaxis, ctl.m_dist))

\* A Reset of a controller with a look-ahead distance, after an Advance that
\* returned a steering value other than 0.
C2_Witness ==
    /\ lastOp = "Reset"
    /\ nAdv >= 1
    /\ ret # 0
    /\ ctl.m_dist > 0
    /\ vehicle # OnPath

\* C3: each Advance of the PID controller, with e the signed lateral error and
\* h the step, sets the derivative to (e - e_prev) / h, adds (e + e_prev) * h / 2
\* to the integral, caches e as the previous error and returns
\* Kp * e + Ki * integral + Kd * derivative; so the integral is always the
\* trapezoidal sum of the errors since construction or the last Reset.
C3_PIDUpdate ==
    /\ [](kind = "PID" => ctl.m_erri = TrapezoidSum(hist))
    /\ [][(kind = "PID" /\ lastOp' = "Advance") =>
             LET e == SignedDistance(ctl'.m_sentinel, ctl'.m_target, vehicle'.pos)
                 h == hist'[Len(hist')].step
             IN  /\ ctl'.m_err = e
                 /\ ctl'.m_errd = FxDiv(e - ctl.m_err, h)
                 /\ ctl'.m_erri = ctl.m_erri + Trunc(FxMul(e + ctl.m_err, h), 2)
                 /\ ret' = FxMul(ctl.m_Kp, e) + FxMul(ctl.m_Ki, ctl'.m_erri)
                             + FxMul(ctl.m_Kd, ctl'.m_errd)]_vars

\* A second Advance of a PID controller with Ki and Kd other than 0, the two
\* errors different and the first other than 0.
C3_Witness ==
    /\ kind = "PID"
    /\ lastOp = "Advance"
    /\ Len(hist) >= 2
    /\ hist[1].err # 0
    /\ hist[2].err # hist[1].err
    /\ ctl.m_Ki # 0
    /\ ctl.m_Kd # 0
    /\ ctl.m_erri # 0

\* C4 (as stated): with Kp = 1, Ki = 0, Kd = 0 on a straight path, Advance
\* returns the lateral distance d of the sentinel from the path.
C4_ReturnsDistance ==
    (kind = "PID" /\ lastOp = "Advance" /\ path = StraightPath /\ UnitProportional(ctl)) =>
        ret = GroundDistance(ctl.m_sentinel, ctl.m_target)

\* C4 (amended): with Kp = 1, Ki = 0, Kd = 0 on a straight path, Advance
\* returns the signed lateral distance: d when the target is to the left of
\* the line from the vehicle position through the sentinel, -d when it is to
\* the right, 0 when vehicle position, sentinel and target are collinear.
C4_ReturnsSignedDistance ==
    (kind = "PID" /\ lastOp = "Advance" /\ path = StraightPath /\ UnitProportional(ctl)) =>
        ret = SignedDistance(ctl.m_sentinel, ctl.m_target, vehicle.pos)

\* An Advance with the unit proportional gains on the straight path, with the
\* target at a distance to the right: the value returned is negative.
C4_Witness ==
    /\ kind = "PID"
    /\ lastOp = "Advance"
    /\ path = StraightPath
    /\ UnitProportional(ctl)
    /\ GroundDistance(ctl.m_sentinel, ctl.m_target) > 0
    /\ ret = -GroundDistance(ctl.m_sentinel, ctl.m_target)

\* C5 (as stated): when the target coincides with the sentinel, Advance of the
\* PID controller returns 0 for every choice of the gains.
C5_ZeroOnPath ==
    (kind = "PID" /\ lastOp = "Advance" /\ ctl.m_target = ctl.m_sentinel) => ret = 0

\* C5 (amended): when the target coincides with the sentinel, Advance of the
\* PID controller returns Ki * integral + Kd * derivative; this is 0 for every
\* choice of the gains on the first Advance after construction or Reset.
C5_ZeroOnPathFirstAdvance ==
    (kind = "PID" /\ lastOp = "Advance" /\ ctl.m_target = ctl.m_sentinel) =>
        /\ ret = FxMul(ctl.m_Ki, ctl.m_erri) + FxMul(ctl.m_Kd, ctl.m_errd)
        /\ Len(hist) = 1 => ret = 0

\* A first Advance after a Reset that followed an Advance, the target on the
\* sentinel and all three gains other than 0.
C5_Witness ==
    /\ kind = "PID"
    /\ lastOp = "Advance"
    /\ ctl.m_target = ctl.m_sentinel
    /\ Len(hist) = 1
    /\ nAdv >= 2
    /\ ctl.m_Kp # 0 /\ ctl.m_Ki # 0 /\ ctl.m_Kd # 0

\* C6: on every variant, an Advance right after a Reset with the same vehicle
\* state leaves the sentinel and the target as they were right after Reset.
C6_AdvanceAfterResetKeepsPoints ==
    [][(lastOp = "Reset" /\ lastOp' = "Advance" /\ pc' = "idle" /\ vehicle' = vehicle) =>
           (ctl'.m_sentinel = ctl.m_sentinel /\ ctl'.m_target = ctl.m_target)]_vars

\* C7: neither Reset nor Advance changes a gain or a parameter of the
\* controller.
C7_ParamsOnlySet ==
    [][lastOp' \in {"Reset", "Advance"} => Params(kind, ctl') = Params(kind, ctl)]_vars

\* C8: an Advance that returns appends exactly one row (time, target, sentinel)
\* to the log buffer if collection is enabled and none otherwise;
\* StartDataCollection while collecting changes nothing; the buffer is
\* allocated, empty, only by a StartDataCollection that finds none; Start and
\* Stop keep the rows of an allocated buffer, so rows survive Stop then Start.
C8_DataCollection ==
    [][/\ (lastOp' = "Advance" /\ pc' = "idle") =>
              ctl'.m_csv =
                  IF ctl.m_collect
                  THEN [ctl.m_csv EXCEPT !.rows =
                            Append(@, [time |-> vehicle'.time, target |-> ctl'.m_target,
                                       sentinel |-> ctl'.m_sentinel])]
                  ELSE ctl.m_csv
       /\ (lastOp' = "StartDataCollection" /\ ctl.m_collect) => ctl' = ctl
       /\ (~ctl.m_csv.alloc /\ ctl'.m_csv.alloc) =>
              (lastOp' = "StartDataCollection" /\ ctl'.m_csv.rows = <<>>)
       /\ (lastOp' \in {"StartDataCollection", "StopDataCollection"} /\ ctl.m_csv.alloc) =>
              ctl'.m_csv = ctl.m_csv
       /\ lastOp' = "StartDataCollection" => (ctl'.m_collect /\ ctl'.m_csv.alloc)
       /\ lastOp' = "StopDataCollection" => (~ctl'.m_collect /\ ctl'.m_csv = ctl.m_csv)
      ]_vars

\* A StartDataCollection that finds rows in the buffer.
C8_Witness ==
    /\ lastOp = "StartDataCollection"
    /\ ctl.m_collect
    /\ Len(ctl.m_csv.rows) >= 1

\* C9: WriteOutputFile writes nothing when no buffer was ever allocated
\* (StartDataCollection never called) and else writes the buffered rows,
\* collecting or not; it changes no member of the controller.
C9_WriteOutputFile ==
    [][lastOp' = "WriteOutputFile" =>
           /\ ctl' = ctl
           /\ IF ctl.m_csv.alloc
              THEN \E f \in FileNames :
                       files' = [files EXCEPT ![f] = [written |-> TRUE,
                                                      rows |-> ctl.m_csv.rows]]
              ELSE files' = files]_vars

\* A WriteOutputFile while collection is stopped that wrote at least one row.
C9_Witness ==
    /\ lastOp = "WriteOutputFile"
    /\ ~ctl.m_collect
    /\ \E f \in FileNames :
          /\ files[f].written
          /\ Len(files[f].rows) >= 1
          /\ files[f].rows = ctl.m_csv.rows

\* C10: a constructor reading a configuration file whose document is null
\* leaves the defaults of the constructor that reads no file: Kp = Ki = Kd = 0
\* and look-ahead 0 for the PID controller; Klat = 0, Kug = 0, Tp = 0.5 and
\* minimum speed 2 for SR; the XT and Stanley defaults.
C10_NullDocumentDefaults ==
    (lastOp = "ctor" /\ ctor.file /\ ctor.null) =>
        CASE kind = "PID"     -> ctl.m_Kp = 0 /\ ctl.m_Ki = 0 /\ ctl.m_Kd = 0 /\ ctl.m_dist = 0
          [] kind = "SR"      -> /\ ctl.m_Klat = 0 /\ ctl.m_Kug = 0
                                 /\ ctl.m_Tp = Scale \div 2 /\ ctl.m_umin = Fx(2)
          [] kind = "XT"      -> ctl = XTCtor(path, ctor.max_wheel_turn_angle)
          [] kind = "Stanley" -> ctl = StanleyCtor(path, ctor.max_wheel_turn_angle)

\* The blended signal of the last XT Advance, from the filter outputs it left.
XTBlended(c) ==
    FxMul(c.m_Wy, c.m_PathErrCtl.y) + FxMul(c.m_Wh, c.m_HeadErrDelay.y)
      + FxMul(c.m_Wa, c.m_AckermannAngleDelay.y)

\* C11: each XT Advance returns the blended signal clamped by the curvature
\* code of that call: into [0, 1] for code 1, [-1, 0] for code -1, [-1, 1] for
\* code 0; the stored output m_res always lies in [-1, 1].
C11_XTCounterSteer ==
    kind = "XT" =>
        /\ -Scale <= ctl.m_res /\ ctl.m_res <= Scale
        /\ lastOp = "Advance" =>
              LET code == XTCalcCurvatureCode(ctl, vehicle.yaxis, ctl.m_pnormal)
                  lo   == IF code = 1 THEN 0 ELSE -Scale
                  hi   == IF code = -1 THEN 0 ELSE Scale
              IN  /\ ret = ctl.m_res
                  /\ lo <= ret /\ ret <= hi
                  /\ (lo <= XTBlended(ctl) /\ XTBlended(ctl) <= hi) => ret = XTBlended(ctl)
                  /\ XTBlended(ctl) < lo => ret = lo
                  /\ XTBlended(ctl) > hi => ret = hi

\* An XT Advance in a left bend whose negative blended signal was cut to 0.
C11_Witness ==
    /\ kind = "XT"
    /\ lastOp = "Advance"
    /\ XTCalcCurvatureCode(ctl, vehicle.yaxis, ctl.m_pnormal) = 1
    /\ XTBlended(ctl) < 0
    /\ ret = 0

\* C12: CalcCurvatureCode(a, b) returns 0 whenever the curvature is at most
\* 1 / R_threshold, whatever a and b; otherwise it returns +1 when the
\* normalized ground-plane vectors a and b are less than 1 apart, and -1
\* when they are not.
C12_CurvatureCode ==
    lastOp = "CalcCurvatureCode" =>
        LET a == Normalize(Vec(hist[1].a.x, hist[1].a.y, 0))
            b == Normalize(Vec(hist[1].b.x, hist[1].b.y, 0))
            apart == ISqrt((a.x - b.x) * (a.x - b.x) + (a.y - b.y) * (a.y - b.y))
        IN  IF ctl.m_pcurvature <= (Scale * Scale) \div ctl.m_R_threshold
            THEN ret = 0
            ELSE ret = (IF apart < Scale THEN 1 ELSE -1)

C12_Witness ==
    /\ lastOp = "CalcCurvatureCode"
    /\ ctl.m_pcurvature = 0
    /\ hist[1].a = Vec(0, Scale, 0) /\ hist[1].b = Vec(0, -Scale, 0)
    /\ ret = 0

\* C17: with a dead zone dz > 0 the Stanley controller goes on with its raw
\* lateral error multiplied by a weight w: w = 0 when |raw| <= dz, w = 1 when
\* |raw| >= 2 dz, and 0 < w < 1, growing with |raw|, in between. With dz = 0
\* the weight is 1.
C17_DeadZone ==
    lastOp = "DeadZone" =>
        LET raw == hist[1].raw
            dz  == ctl.m_deadZone
            w   == StanleyWeight(ctl, raw)
        IN  /\ ret = FxMul(raw, w)
            /\ dz = 0 => w = Scale /\ ret = raw
            /\ dz > 0 /\ Abs(raw) <= dz => w = 0 /\ ret = 0
            /\ dz > 0 /\ Abs(raw) >= 2 * dz => w = Scale /\ ret = raw
            /\ dz > 0 /\ dz < Abs(raw) /\ Abs(raw) < 2 * dz =>
                  /\ 0 < w /\ w < Scale
                  /\ \A r \in FunctionInputs.errors :
                        /\ Abs(r) < Abs(raw) => StanleyWeight(ctl, r) < w
                        /\ Abs(r) > Abs(raw) => StanleyWeight(ctl, r) > w

C17_Witness ==
    /\ lastOp = "DeadZone"
    /\ ctl.m_deadZone = Fx(1)
    /\ hist[1].raw = Fx(1) + Scale \div 2
    /\ 0 < ret /\ ret < hist[1].raw

\* C13: when an Advance of the SR controller returns, the distance of the
\* sentinel along the unit direction of the current segment is at most the
\* length of that segment, unless the index stands at the last segment of an
\* open path.
C13_ProjectionWithinSegment ==
    (kind = "SR" /\ lastOp = "Advance" /\ pc = "idle") =>
        LET pr == SRProjection(ctl, ctl.m_idx_curr)
        IN  \/ pr.t <= pr.rt
            \/ ~ctl.m_isClosedPath /\ ctl.m_idx_curr = Len(ctl.S_l) - 1

AheadOf(veh, d) == VAdd(veh.pos, VScale(veh.xaxis, d))

\* C15 as stated: with Kug = 0 and delta = 0 an Advance of the SR controller
\* puts the sentinel at vehicle position + speed * Tp * forward, for every
\* speed, also one below the minimum speed.
C15_SentinelAtSpeed ==
    [][(kind = "SR" /\ lastOp' = "Advance" /\ ctl.m_Kug = 0 /\ ctl.m_delta = 0) =>
          ctl'.m_sentinel = AheadOf(vehicle', FxMul(GetSpeed(vehicle'), ctl.m_Tp))]_vars

\* C15, amended: with Kug = 0 and delta = 0 an Advance of the SR controller
\* puts the sentinel at vehicle position + max(speed, minimum speed) * Tp *
\* forward: at speed * Tp ahead only when the speed is at least the minimum
\* speed, and at minimum speed * Tp ahead below it.
C15_SentinelAtClampedSpeed ==
    [][(kind = "SR" /\ lastOp' = "Advance" /\ ctl.m_Kug = 0 /\ ctl.m_delta = 0) =>
          LET u == GetSpeed(vehicle')
          IN  ctl'.m_sentinel =
                  AheadOf(vehicle', FxMul(IF u >= ctl.m_umin THEN u ELSE ctl.m_umin, ctl.m_Tp))]_vars

C15_Witness ==
    /\ kind = "SR" /\ lastOp = "Advance" /\ pc = "idle"
    /\ ctl.m_Kug = 0 /\ ctl.m_delta = 0
    /\ 0 < GetSpeed(vehicle) /\ GetSpeed(vehicle) < ctl.m_umin
    /\ ctl.m_sentinel = AheadOf(vehicle, FxMul(ctl.m_umin, ctl.m_Tp))
    /\ ctl.m_sentinel # AheadOf(vehicle, FxMul(GetSpeed(vehicle), ctl.m_Tp))

\* The steering angle after adding Klat * err to the one of c, within
\* +/- delta_max; err is the error the Advance has measured.
DeltaPlus(c, err) ==
    ChClamp(c.m_delta + FxMul(c.m_Klat, err), -c.m_delta_max, c.m_delta_max)

\* C16 as stated: an Advance of the SR controller at a speed that does not
\* exceed the minimum speed leaves delta unchanged; delta becomes
\* delta + Klat * err (within its limits) only at a speed that exceeds it.
C16_DeltaFrozenUpToThreshold ==
    [][(kind = "SR" /\ lastOp' = "Advance" /\ pc' = "idle") =>
          IF GetSpeed(vehicle') <= ctl.m_umin
          THEN ctl'.m_delta = ctl.m_delta
          ELSE ctl'.m_delta = DeltaPlus(ctl, ctl'.m_err)]_vars

\* C16, amended: an Advance of the SR controller at a speed below the minimum
\* speed leaves delta unchanged; at a speed equal to the minimum speed or
\* above it, delta becomes delta + Klat * err, clamped to +/- delta_max.
C16_DeltaFrozenBelowThreshold ==
    [][(kind = "SR" /\ lastOp' = "Advance" /\ pc' = "idle") =>
          IF GetSpeed(vehicle') < ctl.m_umin
          THEN ctl'.m_delta = ctl.m_delta
          ELSE ctl'.m_delta = DeltaPlus(ctl, ctl'.m_err)]_vars

C16_Witness ==
    /\ kind = "SR" /\ lastOp = "Advance" /\ pc = "idle" /\ nAdv = 1
    /\ GetSpeed(vehicle) = ctl.m_umin
    /\ ctl.m_delta # 0

C20_AdvanceReturns == kind = "SR" => pc = "idle"

C21_DegeneratePathRejected ==
    (kind = "SR" /\ lastOp = "CalcPathPoints") =>
        /\ hist[1].accesses \subseteq 0 .. (NumPoints(path) - 1)
        /\ NumPoints(path) < 2 => hist[1].accesses = {} /\ pc # "idle"

\* C24: on a path of np >= 2 points CalcPathPoints stores S[i] = point i for
\* every i and R[i] = S[i+1] - S[i] for every i < np - 1; the last segment is
\* R[np-1] = S[0] - S[np-1] on a closed path and R[np-1] = S[np-1] - S[np-2]
\* on an open one.  (Indices are those of the source; the sequences of the
\* model start at 1.)
C24_PathPoints ==
    (kind = "SR" /\ lastOp = "CalcPathPoints" /\ NumPoints(path) >= 2) =>
        LET np   == NumPoints(path)
            S(i) == ctl.S_l[i + 1]
            R(i) == ctl.R_l[i + 1]
        IN  /\ pc = "idle"
            /\ Len(ctl.S_l) = np /\ Len(ctl.R_l) = np /\ Len(ctl.R_lu) = np
            /\ \A i \in 0 .. (np - 1) : S(i) = path.pts[i + 1]
            /\ \A i \in 0 .. (np - 2) : R(i) = VSub(S(i + 1), S(i))
            /\ R(np - 1) = (IF path.closed THEN VSub(S(0), S(np - 1))
                            ELSE VSub(S(np - 1), S(np - 2)))
            /\ \A i \in 0 .. (np - 1) : ctl.R_lu[i + 1] = Normalize(R(i))

C24_Witness ==
    /\ kind = "SR" /\ lastOp = "CalcPathPoints"
    /\ ~path.closed /\ NumPoints(path) = 3
    /\ ctl.R_l[3] = ctl.R_l[2]
    /\ ctl.R_l[3] # VSub(ctl.S_l[1], ctl.S_l[3])

\* The angle between the unit ground-plane vectors a and b as the heading
\* error measures it: asin of the vertical part of a x b, with b turned round
\* when a and b are 1 or more apart.
HeadingAngle(a, b) ==
    FxAsin(Height(IF Length(VSub(a, b)) < Scale THEN Vcross(a, b) ELSE Vcross(a, VNeg(b))))

\* C22: CalcHeadingError of the XT controller measures the heading error
\* from the direction of the vehicle's ground-plane velocity when the vehicle
\* speed is at least 1, and from the chassis forward axis when the speed is
\* below 1, also at standstill.
C22_MotionDirection ==
    (kind = "XT" /\ lastOp = "CalcHeadingError") =>
        LET vel == Project(hist[1].vel)
            dir == IF Length(vel) >= Scale THEN Normalize(vel)
                   ELSE Normalize(Project(hist[1].a))
        IN  ret = HeadingAngle(dir, Normalize(Project(hist[1].b)))


\* The filters of an XT or Stanley controller, and their configuration: the
\* step size, the time constants and the gain.
FiltersOf(c) ==
    IF kind = "XT" THEN <<c.m_HeadErrDelay, c.m_AckermannAngleDelay, c.m_PathErrCtl>>
    ELSE <<c.m_delayFilter>>

FilterSetup(c) ==
    [i \in DOMAIN FiltersOf(c) |->
        LET f == FiltersOf(c)[i] IN <<f.configured, f.step, f.T1, f.Td1, f.K>>]

FiltersSetUp(c) == \A i \in DOMAIN FiltersOf(c) : FiltersOf(c)[i].configured

\* One step of an XT or Stanley controller keeps a finished filter setup,
\* finishes it only in the first Advance and with the step of that call, and
\* leaves the filters alone in everything that is not an Advance.
FiltersKept ==
    kind \in {"XT", "Stanley"} =>
        /\ FiltersSetUp(ctl) => FilterSetup(ctl') = FilterSetup(ctl)
        /\ (~FiltersSetUp(ctl) /\ FiltersSetUp(ctl')) =>
               /\ lastOp' = "Advance" /\ nAdv = 0
               /\ \A i \in DOMAIN FiltersOf(ctl') :
                      FiltersOf(ctl')[i].step = hist'[Len(hist')].step
        /\ lastOp' # "Advance" => FiltersOf(ctl') = FiltersOf(ctl)

\* C23: an XT or a Stanley controller sets its filters up exactly once, in its
\* first Advance and with the step size of that call, before a value is
\* filtered: until then no filter is configured and none has filtered a value,
\* the first Advance configures all of them with its step, and afterwards no
\* Advance (also with another step), no Reset and no setter changes the setup.
C23_FiltersSetUpOnce ==
    /\ [](kind \in {"XT", "Stanley"} =>
            /\ nAdv = 0 => \A i \in DOMAIN FiltersOf(ctl) : FiltersOf(ctl)[i] = NoFilter
            /\ nAdv > 0 => FiltersSetUp(ctl))
    /\ [][FiltersKept]_vars

\* An XT controller that was set up with the step 0.5, then reset, has made a
\* later Advance with the step 1 and still filters with the step 0.5.
C23_Witness ==
    /\ kind = "XT" /\ lastOp = "Advance" /\ nAdv >= 2 /\ Len(hist) = 1
    /\ hist[1].step = Fx(1)
    /\ ctl.m_PathErrCtl.step = Scale \div 2
    /\ ctl.m_PathErrCtl.y # 0


\* The magnitude of x, and x brought into lo .. hi.
Magnitude(x) == IF x < 0 THEN 0 - x ELSE x

Saturated(x, lo, hi) == IF x <= lo THEN lo ELSE IF x >= hi THEN hi ELSE x

\* C25: the setters of the SR and the Stanley controller accept every
\* argument and saturate it: after SR SetGains(Klat, Kug) the lateral gain is
\* |Klat| and the understeer gain is Kug brought into [0, 5]; after
\* SetPreviewTime(Tp) the preview time is Tp brought into [0.2, 4]; after
\* Stanley SetGains(Kp, Ki, Kd) the gains are |Kp|, |Ki| and |Kd|.  The
\* controller is usable after each of them.
C25_SettersSaturate ==
    /\ (kind = "SR" /\ lastOp = "SetGains") =>
            /\ pc = "idle"
            /\ ctl.m_Klat = Magnitude(hist[1].args[1])
            /\ ctl.m_Kug = Saturated(hist[1].args[2], 0, Fx(5))
    /\ (kind = "SR" /\ lastOp = "SetPreviewTime") =>
            /\ pc = "idle"
            /\ ctl.m_Tp = Saturated(hist[1].args[1], Scale \div 5, Fx(4))
    /\ (kind = "Stanley" /\ lastOp = "SetGains") =>
            /\ pc = "idle"
            /\ ctl.m_Kp = Magnitude(hist[1].args[1])
            /\ ctl.m_Ki = Magnitude(hist[1].args[2])
            /\ ctl.m_Kd = Magnitude(hist[1].args[3])

\* SetGains(-0.1, 6) on an SR controller left the gains 0.1 and 5.
C25_Witness ==
    /\ kind = "SR" /\ lastOp = "SetGains"
    /\ hist[1].args = <<-(Scale \div 10), Fx(6)>>
    /\ ctl.m_Klat = Scale \div 10 /\ ctl.m_Kug = Fx(5)


\* C26: the divisors of Advance that depend on the vehicle speed are not 0 at
\* any speed, 0 included: the Stanley controller divides by the speed raised
\* to the minimum speed, which is above 0, and the turn radius R of the SR
\* controller, the divisor of theta = speed * Tp / R, is not 0.
C26_DivisorsNonZero ==
    /\ kind = "Stanley" =>
            \A u \in FunctionInputs.speeds :
                /\ ctl.m_umin > 0
                /\ ChClamp(u, ctl.m_umin, u) >= ctl.m_umin
                /\ ChClamp(u, ctl.m_umin, u) >= u
    /\ (kind = "SR" /\ lastOp = "TurnRadius") => ret # 0


\* C27: the lateral error the base, the XT and the Stanley Advance work with
\* is the ground distance from the sentinel to the target, signed by the
\* vertical component of the cross product of sentinel - vehicle position and
\* target - vehicle position: positive with the target to the left, negative
\* with the target to the right, 0 when the three points are collinear.  The
\* base class caches it in m_err, the XT controller feeds it to its error
\* filter, the Stanley controller caches it times the dead zone weight (unless
\* the countdown has just cleared the cache).
C27_SignedLateralError ==
    (lastOp = "Advance" /\ pc = "idle") =>
        LET d == SignedDistance(ctl.m_sentinel, ctl.m_target, vehicle.pos)
        IN  /\ kind = "PID" => ctl.m_err = d
            /\ kind = "XT" => ctl.m_PathErrCtl.u_old = d
            /\ (kind = "Stanley" /\ ctl.m_Treset # Stanley_Treset) =>
                    ctl.m_err = FxMul(d, StanleyWeight(ctl, d))

\* An XT Advance that fed a negative error to its filter (target to the
\* right), with vehicle position, sentinel and target off the world origin.
C27_Witness ==
    /\ kind = "XT" /\ lastOp = "Advance"
    /\ ctl.m_PathErrCtl.u_old < 0
    /\ ctl.m_PathErrCtl.u_old = -GroundDistance(ctl.m_sentinel, ctl.m_target)
    /\ vehicle.pos # VZero


\* C28: an SR controller constructed with max_wheel_turn_angle > 0 keeps
\* -delta_max <= delta <= delta_max in every state, and an Advance that
\* returns, returns delta / delta_max for the delta it leaves (a value in
\* [-1, 1]).
C28_DeltaBounded ==
    (kind = "SR" /\ ctl.m_delta_max > 0) =>
        /\ -ctl.m_delta_max <= ctl.m_delta
        /\ ctl.m_delta <= ctl.m_delta_max
        /\ (lastOp = "Advance" /\ pc = "idle") =>
               /\ ret = Trunc(ctl.m_delta * Scale, ctl.m_delta_max)
               /\ -Scale <= ret /\ ret <= Scale


\* C29: in every state of every controller, data collection is enabled only
\* with the log buffer allocated, so that no Advance writes a row through a
\* null buffer; and a buffer once allocated stays allocated (the destructor
\* alone gives it back).
C29_BufferAllocated ==
    /\ [](ctl.m_collect => ctl.m_csv.alloc)
    /\ [][ctl.m_csv.alloc => ctl'.m_csv.alloc]_vars

\* An SR controller whose Advance has written a row while collection is
\* enabled.
C29_Witness ==
    /\ kind = "SR" /\ lastOp = "Advance"
    /\ ctl.m_collect /\ ctl.m_csv.alloc
    /\ Len(ctl.m_csv.rows) >= 1


\* C30: in every state of an SR controller, whichever constructor built it
\* and whatever SetGains, SetPreviewTime and Reset did since, the lateral gain
\* is not negative, the understeer gain is in [0, 5] and the preview time is
\* in [0.2, 4].
C30_ParametersInRange ==
    kind = "SR" =>
        /\ ctl.m_Klat >= 0
        /\ 0 <= ctl.m_Kug /\ ctl.m_Kug <= Fx(5)
        /\ Scale \div 5 <= ctl.m_Tp /\ ctl.m_Tp <= Fx(4)

====
